---- MODULE Spec2Model ----
(***************************************************************************)
(* A model of RedditListener's scraping core (src/reddit_scraper.py):      *)
(* the rate limiter shared by the listing fetch and the thread-content     *)
(* fetch, the schema detection and per-node extraction loop of             *)
(* scrape_subreddit, parse_relative_time and filter_by_date_range.         *)
(***************************************************************************)
EXTENDS Integers, Sequences, FiniteSets, TLC

(***************************************************************************)
(* Bounds of the model.                                                    *)
(***************************************************************************)
\* the wall clock stops advancing at MaxTime
MaxTime == 11
\* the largest number of post nodes in one listing document
MaxNodes == 2
\* the same, for the listings of the pacing specification
MaxPacingNodes == 2
\* the largest max_threads a caller asks for
MaxThreads == 2

(***************************************************************************)
(* Program constants.                                                      *)
(***************************************************************************)
min_request_interval == 5
max_request_interval == 8
\* find_all limits: max_threads * 5 modern nodes, max_threads * 2 legacy nodes
ModernLimitFactor == 5
LegacyLimitFactor == 2

\* the activities that may call into the one module-level scraper instance
Callers == {"s1", "s2"}
\* a single scraping activity
SeqCallers == {"s1"}

VARIABLES
    now,                 \* time.time(): the wall clock, in seconds
    last_request_time,   \* RedditScraper.last_request_time
    pc,                  \* pc[c]: where caller c is inside scrape_subreddit
    max_threads,         \* max_threads[c]: argument of the running call
    fetch_full_content,  \* fetch_full_content[c]: argument of the running call
    random_delay,        \* random_delay[c]: the delay sampled for the next request (0: none)
    wake,                \* wake[c]: the instant time.sleep may return
    doc,                 \* doc[c]: the post nodes of the listing markup, in document order
    posts,               \* posts[c]: the node list the loop iterates over
    idx,                 \* idx[c]: position of the loop in posts[c]
    threads,             \* threads[c]: the records collected so far
    thread_data,         \* thread_data[c]: the record being enriched (<<>> when none)
    returned,            \* returned[c]: what the last finished call returned, and why
    net,                 \* history of the outbound requests of the instance
    requests,            \* requests[c]: the requests the call of c has issued so far
    logged               \* logged[c]: the error event of the last fetch of the call of c

scraperVars == <<now, last_request_time, pc, max_threads, fetch_full_content,
                 random_delay, wake, doc, posts, idx, threads, thread_data,
                 returned, net, requests, logged>>

\* one call of parse_relative_time, or of the line that calls it
VARIABLES
    time_in,             \* where the phrase comes from, and the phrase
    dt_now,              \* datetime.now() during the call
    created_date         \* the timestamp string produced ("kind" none: not yet)

timeVars == <<time_in, dt_now, created_date>>

\* one call of filter_by_date_range
VARIABLES
    records,             \* the threads argument
    start_date,          \* the start_date argument
    end_date,            \* the end_date argument
    filtered             \* the list returned, once the call is over

filterVars == <<records, start_date, end_date, filtered>>

\* the content of one record, from its post node and its thread page
VARIABLES
    body_in,             \* the text lengths found in the node and the thread page
    content              \* the content of the record ("kind" none: not yet)

bodyVars == <<body_in, content>>

\* the normalization of the caller's URL
VARIABLES
    url_in,              \* the subreddit_url argument of scrape_subreddit
    url_out              \* the listing name found and the URL requested

urlVars == <<url_in, url_out>>

\* the threads table (src/database.py) and the save loop of a progress stream
VARIABLES
    rows,                \* the rows of the table threads
    next_id,             \* the next value of the AUTOINCREMENT column id
    batch,               \* the records the stream is saving
    save_pos,            \* position of the save loop in batch (0: no loop yet)
    saved_count,         \* saved_count of the stream
    skipped_count,       \* the records the stream reported as skipped
    fresh_count,         \* the records of the stream whose thread_id was not stored before
    last_insert          \* the last call of insert_thread and what it returned

storeVars == <<rows, next_id, batch, save_pos, saved_count, skipped_count,
               fresh_count, last_insert>>

\* the segmentation of the text of one modern node
VARIABLES
    post_text,           \* the text of the node, and the parts it was written from
    thread_fields        \* the fields of the record built from it ("done" FALSE: not yet)

parseVars == <<post_text, thread_fields>>

\* one progress stream of the web layer (src/app.py)
VARIABLES
    stream,              \* the request, and where generate() stands
    events               \* the events the stream has emitted so far

streamVars == <<stream, events>>

laterVars == <<parseVars, streamVars>>

\* the variables of the functions modelled after the first ones
extraVars == <<bodyVars, urlVars, storeVars, laterVars>>

\* what the scraper's steps leave alone
pureVars == <<timeVars, filterVars, extraVars>>

vars == <<scraperVars, timeVars, filterVars, extraVars>>

(***************************************************************************)
(* Listing markup.  A post node is described by what the extraction code   *)
(* reads from it.                                                          *)
(*   schema : "legacy" (<div class="thing" data-type="link">) or           *)
(*            "modern" (<shreddit-post>)                                   *)
(*   idsrc  : where a non-empty identifier is found: "fullname"            *)
(*            (data-fullname), "id" (the id attribute) or "none"           *)
(*   title  : legacy only: "none" (no <a class="title">), "empty" (the     *)
(*            element has no text) or "text"                               *)
(***************************************************************************)
LegacyNodes == [schema : {"legacy"}, idsrc : {"fullname", "id", "none"},
                title : {"none", "empty", "text"}]
ModernNodes == [schema : {"modern"}, idsrc : {"id", "none"}, title : {"text"}]
Nodes == LegacyNodes \cup ModernNodes

Documents == UNION { [1..n -> Nodes] : n \in 0..MaxNodes }

\* positions of the nodes of one schema, in document order
RECURSIVE PositionsFrom(_, _, _)
PositionsFrom(d, schema, i) ==
    IF i > Len(d) THEN <<>>
    ELSE IF d[i].schema = schema
         THEN <<i>> \o PositionsFrom(d, schema, i + 1)
         ELSE PositionsFrom(d, schema, i + 1)

Take(s, n) == IF Len(s) <= n THEN s ELSE SubSeq(s, 1, n)

\* soup.find_all(..., limit=n): the first n matching nodes, in document order
\* (each entry remembers the node's position in the document)
FindAll(d, schema, limit) ==
    LET ps == Take(PositionsFrom(d, schema, 1), limit)
    IN  [k \in 1..Len(ps) |-> [pos |-> ps[k], node |-> d[ps[k]]]]

\* lines 142-150: the schema detection policy
SelectPostsModernFirst(d, max) ==
    LET modern == FindAll(d, "modern", max * ModernLimitFactor)
        old_posts == FindAll(d, "legacy", max * LegacyLimitFactor)
    IN  IF Len(modern) = 0 /\ Len(old_posts) > 0 THEN old_posts ELSE modern

SelectPosts(d, max) ==
    LET modern == FindAll(d, "modern", max * ModernLimitFactor)
        old_posts == FindAll(d, "legacy", max * LegacyLimitFactor)
    IN  IF Len(modern) < max /\ Len(old_posts) > 0 THEN old_posts ELSE modern

\* line 155: the loop stops once max_threads records are collected
ReachedMaxOffByOne(ths, max) == Len(ths) > max

ReachedMax(ths, max) == Len(ths) >= max

\* lines 160-217 and 328-342: what one post node becomes.
\*   "skip"   : modern node without identifier (continue at line 217)
\*   "raise"  : legacy node without title element: title is None and
\*              title[:60] at line 342 raises, caught at line 355
\*   "record" : a thread_data dictionary is built
NodeOutcome(n) ==
    IF n.schema = "modern"
    THEN IF n.idsrc = "none" THEN "skip" ELSE "record"
    ELSE IF n.title = "none" THEN "raise" ELSE "record"

\* lines 330-340: the record built from a node (pos: the node's document
\* position).  The fields the model does not look into carry the name of
\* the value the code stores in them.
ThreadData(p) ==
    [pos          |-> p.pos,
     schema       |-> p.node.schema,
     thread_id    |-> IF p.node.idsrc = "none" THEN "" ELSE "id",
     subreddit    |-> "subreddit_name",
     title        |-> IF p.node.schema = "modern" THEN "text" ELSE p.node.title,
     author       |-> "author",
     posted_time  |-> "posted_time",
     created_date |-> "created_date",
     flair        |-> "flair",
     content      |-> "inline",
     url          |-> "url"]

(***************************************************************************)
(* Outcomes of requests.get followed by raise_for_status.                  *)
(*   "ok"      : a 2xx response                                            *)
(*   "http403" : a 403 response (raise_for_status raises HTTPError)        *)
(*   "http5xx" : another error status                                      *)
(*   "neterr"  : requests.get raises ConnectionError                       *)
(*   "timeout" : requests.get raises Timeout                               *)
(***************************************************************************)
Outcomes == {"ok", "http403", "http5xx", "neterr", "timeout"}

\* requests.get returned a response object (line 133 / 408 is reached)
GotResponse(o) == o \in {"ok", "http403", "http5xx"}

\* lines 132-133 and 407-408: last_request_time after the request completed
StampAfterRequest(o, t, last) == IF GotResponse(o) THEN t ELSE last

\* history of the instance's outbound requests:
\*   started  : "none", "first" (one request issued so far) or "later"
\*   curStart : start instant of the last request issued
\*   gap      : curStart minus the start instant of the request before it
\*   curDelay : the delay sampled before the last request issued (0: none)
\*   inflight : requests issued and not yet completed
\*   outcome  : outcome of the last request completed ("none": none yet)
\*   doneAt   : the instant the last request completed
NoNet == [started |-> "none", curStart |-> 0, gap |-> 0, curDelay |-> 0,
          inflight |-> 0, outcome |-> "none", doneAt |-> 0]

\* the requests one call issues: the listing request (line 132) and the
\* thread-content requests (line 407)
NoRequests == [listing |-> 0, content |-> 0]

\* line 407 with a request that is tried again once when it is issued
IssuedTwice(rq, td) ==
    IF td = <<>> THEN [rq EXCEPT !.listing = rq.listing + 1]
    ELSE [rq EXCEPT !.content = rq.content + 2]

\* a request is issued: the call asks for the listing until it has a record
\* to enrich
Issued(rq, td) ==
    IF td = <<>> THEN [rq EXCEPT !.listing = rq.listing + 1]
    ELSE [rq EXCEPT !.content = rq.content + 1]

\* an event written with logger.error: the message of the statement and
\* the exception it interpolates
NoEvent == [level |-> "none", message |-> "", exc |-> ""]
ErrorEvent(message, exc) == [level |-> "error", message |-> message, exc |-> exc]

\* str(e) of the exception that requests.get or raise_for_status raises
ExceptionOf(o) ==
    CASE o = "http403" -> "403 Client Error: Forbidden"
      [] o = "http5xx" -> "500 Server Error"
      [] o = "neterr"  -> "ConnectionError"
      [] o = "timeout" -> "Timeout"
      [] OTHER         -> ""

\* lines 361-370: the error event of a failed listing fetch (the 403 branch
\* logs a second line, the hint to try again later)
ListingLogEvent(o) ==
    CASE o = "ok"      -> NoEvent
      [] o = "http403" -> ErrorEvent("Access blocked by Reddit (403 Forbidden)", "")
      [] o = "http5xx" -> ErrorEvent("HTTP error fetching threads: {e}", ExceptionOf(o))
      [] OTHER         -> ErrorEvent("Error fetching threads: {e}", ExceptionOf(o))

\* lines 446-447: the error event of a failed thread-content fetch
ContentLogEvent(o) ==
    IF o = "ok" THEN NoEvent
    ELSE ErrorEvent("Error fetching thread content from {thread_url}: {e}",
                    ExceptionOf(o))

\* no call of parse_relative_time or filter_by_date_range is modelled
NoText == [kind |-> "none", date |-> 0, hh |-> 0, mm |-> 0, ss |-> 0,
           us |-> 0, tz |-> FALSE]
NoInstant == [day |-> 0, sec |-> 0, us |-> 0]
TimeIdle ==
    /\ time_in = [via |-> "none"]
    /\ dt_now = NoInstant
    /\ created_date = NoText
FilterIdle ==
    /\ records = <<>>
    /\ start_date = NoText
    /\ end_date = NoText
    /\ filtered = [done |-> FALSE, value |-> <<>>]

InitScraper ==
    /\ now = 1
    /\ last_request_time = 0
    /\ pc = [c \in Callers |-> "idle"]
    /\ max_threads = [c \in Callers |-> 0]
    /\ fetch_full_content = [c \in Callers |-> FALSE]
    /\ random_delay = [c \in Callers |-> 0]
    /\ wake = [c \in Callers |-> 0]
    /\ doc = [c \in Callers |-> <<>>]
    /\ posts = [c \in Callers |-> <<>>]
    /\ idx = [c \in Callers |-> 0]
    /\ threads = [c \in Callers |-> <<>>]
    /\ thread_data = [c \in Callers |-> <<>>]
    /\ returned = [c \in Callers |-> "none"]
    /\ net = NoNet
    /\ requests = [c \in Callers |-> NoRequests]
    /\ logged = [c \in Callers |-> NoEvent]

\* no content extraction is modelled
NoContent == [kind |-> "none", len |-> 0]
BodyIdle ==
    /\ body_in = [schema |-> "none"]
    /\ content = NoContent
\* no URL normalization is modelled
NoUrl == [done |-> FALSE, found |-> FALSE, name |-> <<>>, value |-> <<>>]
UrlIdle ==
    /\ url_in = <<>>
    /\ url_out = NoUrl
\* init_database: an empty table; no stream is saving
NoInsert == [called |-> FALSE, thread_id |-> "", existed |-> FALSE,
             inserted |-> FALSE, result |-> FALSE, fields |-> "",
             summarized |-> FALSE]
StoreIdle ==
    /\ rows = {}
    /\ next_id = 1
    /\ batch = <<>>
    /\ save_pos = 0
    /\ saved_count = 0
    /\ skipped_count = 0
    /\ fresh_count = 0
    /\ last_insert = NoInsert
\* no segmentation is modelled
NoFields == [done |-> FALSE, title |-> <<>>, author |-> <<>>,
             posted_time |-> <<>>, flair |-> <<>>, content |-> <<>>]
ParseIdle ==
    /\ post_text = [layout |-> "none"]
    /\ thread_fields = NoFields
\* no progress stream is open
StreamIdle ==
    /\ stream = [at |-> "none"]
    /\ events = <<>>
LaterIdle == ParseIdle /\ StreamIdle
ExtraIdle == BodyIdle /\ UrlIdle /\ StoreIdle /\ LaterIdle

Init == InitScraper /\ TimeIdle /\ FilterIdle /\ ExtraIdle

\* the clock advances; whoever sleeps or waits for a response lets it pass
Tick ==
    /\ now < MaxTime
    /\ now' = now + 1
    /\ UNCHANGED <<last_request_time, pc, max_threads, fetch_full_content,
                   random_delay, wake, doc, posts, idx, threads, thread_data,
                   returned, net, requests, logged,
                   pureVars>>

\* lines 93-117 without the early return of lines 96-98: the call goes on to
\* the rate limiter and the request although no name was found
CallWithoutEarlyReturn(c, has_name, max, full) ==
    /\ pc[c] = "idle"
    /\ max_threads' = [max_threads EXCEPT ![c] = max]
    /\ fetch_full_content' = [fetch_full_content EXCEPT ![c] = full]
    /\ threads' = [threads EXCEPT ![c] = <<>>]
    /\ requests' = [requests EXCEPT ![c] = NoRequests]
    /\ logged' = [logged EXCEPT ![c] = NoEvent]
    /\ pc' = [pc EXCEPT ![c] = "limit"]
    /\ returned' = [returned EXCEPT ![c] = IF has_name THEN "running" ELSE "no_name"]
    /\ UNCHANGED <<now, last_request_time, random_delay, wake, doc, posts,
                   idx, thread_data, net,
                   pureVars>>

\* scrape_subreddit, lines 93-117: the call begins; has_name says whether
\* extract_subreddit_name finds a listing name in the caller's URL
Call(c, has_name, max, full) ==
    /\ pc[c] = "idle"
    /\ max_threads' = [max_threads EXCEPT ![c] = max]
    /\ fetch_full_content' = [fetch_full_content EXCEPT ![c] = full]
    /\ threads' = [threads EXCEPT ![c] = <<>>]
    /\ requests' = [requests EXCEPT ![c] = NoRequests]
    /\ logged' = [logged EXCEPT ![c] = NoEvent]
    /\ IF has_name
       THEN /\ pc' = [pc EXCEPT ![c] = "limit"]
            /\ returned' = [returned EXCEPT ![c] = "running"]
       ELSE /\ pc' = pc
            /\ returned' = [returned EXCEPT ![c] = "no_name"]
    /\ UNCHANGED <<now, last_request_time, random_delay, wake, doc, posts,
                   idx, thread_data, net,
                   pureVars>>

\* lines 121-129 (listing) and 396-404 (thread content): the rate limiter
RateLimit(c) ==
    /\ pc[c] = "limit"
    /\ IF last_request_time > 0
       THEN \E d \in min_request_interval..max_request_interval :
              LET time_since_last_request == now - last_request_time
              IN  /\ random_delay' = [random_delay EXCEPT ![c] = d]
                  /\ IF time_since_last_request < d
                     THEN /\ wake' = [wake EXCEPT ![c] =
                                          now + (d - time_since_last_request)]
                          /\ pc' = [pc EXCEPT ![c] = "sleep"]
                     ELSE /\ wake' = wake
                          /\ pc' = [pc EXCEPT ![c] = "send"]
       ELSE /\ random_delay' = [random_delay EXCEPT ![c] = 0]
            /\ wake' = wake
            /\ pc' = [pc EXCEPT ![c] = "send"]
    /\ UNCHANGED <<now, last_request_time, max_threads, fetch_full_content,
                   doc, posts, idx, threads, thread_data, returned, net,
                   requests, logged,
                   pureVars>>

\* lines 129 and 404: time.sleep(sleep_time) returns no earlier than asked
Wake(c) ==
    /\ pc[c] = "sleep"
    /\ now >= wake[c]
    /\ pc' = [pc EXCEPT ![c] = "send"]
    /\ wake' = [wake EXCEPT ![c] = 0]
    /\ UNCHANGED <<now, last_request_time, max_threads, fetch_full_content,
                   random_delay, doc, posts, idx, threads, thread_data,
                   returned, net, requests, logged,
                   pureVars>>

\* lines 132 and 407 with a request that does not block its caller: the
\* caller may issue the next one before the response is there
SendWithoutWaiting(c) ==
    /\ pc[c] = "send"
    /\ pc' = pc
    /\ random_delay' = [random_delay EXCEPT ![c] = 0]
    /\ net' = [net EXCEPT
                 !.started = IF net.started = "none" THEN "first" ELSE "later",
                 !.gap = now - net.curStart,
                 !.curStart = now,
                 !.curDelay = random_delay[c],
                 !.inflight = net.inflight + 1]
    /\ requests' = [requests EXCEPT ![c] = Issued(requests[c], thread_data[c])]
    /\ UNCHANGED <<now, last_request_time, max_threads, fetch_full_content,
                   wake, doc, posts, idx, threads, thread_data, returned,
                   logged,
                   pureVars>>

\* lines 132 and 407: requests.get is entered, the request starts
Send(c) ==
    /\ pc[c] = "send"
    /\ pc' = [pc EXCEPT ![c] = "wait"]
    /\ random_delay' = [random_delay EXCEPT ![c] = 0]
    /\ net' = [net EXCEPT
                 !.started = IF net.started = "none" THEN "first" ELSE "later",
                 !.gap = now - net.curStart,
                 !.curStart = now,
                 !.curDelay = random_delay[c],
                 !.inflight = net.inflight + 1]
    /\ requests' = [requests EXCEPT ![c] = Issued(requests[c], thread_data[c])]
    /\ UNCHANGED <<now, last_request_time, max_threads, fetch_full_content,
                   wake, doc, posts, idx, threads, thread_data, returned,
                   logged,
                   pureVars>>

Completed(o) == [net EXCEPT !.inflight = net.inflight - 1,
                            !.outcome = o, !.doneAt = now]

\* lines 361-373 without the handler of lines 368-370: a transport error
\* leaves scrape_subreddit as an exception
ListingFailureUncaught(o) ==
    CASE o = "http403" -> "http403"
      [] o = "http5xx" -> "http_error"
      [] OTHER         -> "raised"

\* why scrape_subreddit returns [] after a failed listing fetch (lines 361-373)
ListingFailure(o) ==
    CASE o = "http403" -> "http403"
      [] o = "http5xx" -> "http_error"
      [] OTHER         -> "request_error"

\* lines 132-152 and 361-370: the listing request has completed with outcome
\* o; d is the markup of a 2xx response
ListingFetched(c, o, d) ==
    /\ thread_data[c] = <<>>
    /\ last_request_time' = StampAfterRequest(o, now, last_request_time)
    /\ logged' = [logged EXCEPT ![c] = ListingLogEvent(o)]
    /\ IF o = "ok"
       THEN /\ doc' = [doc EXCEPT ![c] = d]
            /\ posts' = [posts EXCEPT ![c] = SelectPosts(d, max_threads[c])]
            /\ idx' = [idx EXCEPT ![c] = 1]
            /\ pc' = [pc EXCEPT ![c] = "loop"]
            /\ returned' = returned
       ELSE /\ pc' = [pc EXCEPT ![c] = "idle"]
            /\ returned' = [returned EXCEPT ![c] = ListingFailure(o)]
            /\ UNCHANGED <<doc, posts, idx>>
    /\ UNCHANGED <<max_threads, fetch_full_content, threads, thread_data>>

\* fetch_thread_content without the handler of lines 446-448: a failed
\* request leaves the function as an exception
FullContentUncaught(o, has_body) ==
    IF o = "ok" THEN (IF has_body THEN "fetched" ELSE "") ELSE "raised"

\* fetch_thread_content, lines 407-448: what the call returns; has_body says
\* whether the thread page carries a self-text longer than 10 characters
FullContent(o, has_body) == IF o = "ok" /\ has_body THEN "fetched" ELSE ""

\* lines 347-349 with the body replaced whatever came back
EnrichedDestructive(td, full_content) == [td EXCEPT !.content = full_content]

\* lines 347-349: the record is enriched when content came back
Enriched(td, full_content) ==
    IF full_content # "" THEN [td EXCEPT !.content = full_content] ELSE td

\* lines 407-448 and 347-357: the thread-content request has completed; the
\* record is enriched and appended, and the loop moves to the next node (an
\* exception leaving line 347 would be caught at line 355 and the node
\* dropped)
ContentFetched(c, o, has_body) ==
    /\ thread_data[c] # <<>>
    /\ (o # "ok" => ~has_body)
    /\ last_request_time' = StampAfterRequest(o, now, last_request_time)
    /\ logged' = [logged EXCEPT ![c] = ContentLogEvent(o)]
    /\ LET full_content == FullContent(o, has_body)
       IN  threads' = [threads EXCEPT ![c] =
                          IF full_content = "raised" THEN threads[c]
                          ELSE Append(threads[c],
                                      Enriched(thread_data[c], full_content))]
    /\ thread_data' = [thread_data EXCEPT ![c] = <<>>]
    /\ idx' = [idx EXCEPT ![c] = idx[c] + 1]
    /\ pc' = [pc EXCEPT ![c] = "loop"]
    /\ UNCHANGED <<max_threads, fetch_full_content, doc, posts, returned>>

\* the listing response arrives
ListingResponse(c, o, d) ==
    /\ pc[c] = "wait"
    /\ ListingFetched(c, o, d)
    /\ net' = Completed(o)
    /\ UNCHANGED <<now, random_delay, wake, requests,
                   pureVars>>

\* the thread-content response arrives
ContentResponse(c, o, has_body) ==
    /\ pc[c] = "wait"
    /\ ContentFetched(c, o, has_body)
    /\ net' = Completed(o)
    /\ UNCHANGED <<now, random_delay, wake, requests,
                   pureVars>>

\* lines 154-357 and 375: one iteration of the loop over the post nodes, up
\* to the content fetch; or the end of the loop and the return (the locals
\* die with the call, the list of records is handed to the caller)
Loop(c) ==
    /\ pc[c] = "loop"
    /\ IF idx[c] > Len(posts[c]) \/ ReachedMax(threads[c], max_threads[c])
       THEN /\ pc' = [pc EXCEPT ![c] = "idle"]
            /\ returned' = [returned EXCEPT ![c] = "ok"]
            /\ doc' = [doc EXCEPT ![c] = <<>>]
            /\ posts' = [posts EXCEPT ![c] = <<>>]
            /\ idx' = [idx EXCEPT ![c] = 0]
            /\ UNCHANGED <<threads, thread_data>>
       ELSE LET post == posts[c][idx[c]] IN
            /\ UNCHANGED <<returned, doc, posts>>
            /\ IF NodeOutcome(post.node) # "record"
               THEN /\ idx' = [idx EXCEPT ![c] = idx[c] + 1]
                    /\ UNCHANGED <<pc, threads, thread_data>>
               ELSE IF fetch_full_content[c]
                    THEN /\ thread_data' = [thread_data EXCEPT ![c] = ThreadData(post)]
                         /\ pc' = [pc EXCEPT ![c] = "limit"]
                         /\ UNCHANGED <<idx, threads>>
                    ELSE /\ threads' = [threads EXCEPT ![c] =
                                           Append(threads[c], ThreadData(post))]
                         /\ idx' = [idx EXCEPT ![c] = idx[c] + 1]
                         /\ UNCHANGED <<pc, thread_data>>
    /\ UNCHANGED <<now, last_request_time, max_threads, fetch_full_content,
                   random_delay, wake, net, requests, logged,
                   pureVars>>

\* line 137: only a 2xx response is parsed for post nodes
MarkupOf(o, docs) == IF o = "ok" THEN docs ELSE {<<>>}

\* the listings the pacing specification draws from: what a node contains
\* decides only whether a thread-content request follows (a node with
\* identifier: a record and, if asked for, a request) or not (a node without)
PacingNodes == ModernNodes
PacingDocuments == UNION { [1..n -> PacingNodes] : n \in 0..MaxPacingNodes }

Step(c) ==
    \/ \E has_name \in BOOLEAN, max \in 1..MaxThreads, full \in BOOLEAN :
         Call(c, has_name, max, full)
    \/ RateLimit(c)
    \/ Wake(c)
    \/ Send(c)
    \/ \E o \in Outcomes :
         \E d \in MarkupOf(o, PacingDocuments) : ListingResponse(c, o, d)
    \/ Loop(c)
    \/ \E o \in Outcomes, has_body \in BOOLEAN : ContentResponse(c, o, has_body)

\* one scraping activity uses the scraper instance
Next ==
    \/ Tick
    \/ \E c \in SeqCallers : Step(c)

Spec == Init /\ [][Next]_vars

(***************************************************************************)
(* The concurrent specification: the web layer (src/app.py) serves every   *)
(* progress stream in a thread of its own, and each stream calls           *)
(* scrape_subreddit on the one module-level scraper instance (line 263),   *)
(* with fetch_full_content left at its default.  Nothing orders the steps  *)
(* of two streams.                                                         *)
(***************************************************************************)
\* outcomes tried: a response that arrives and a request that raises
StreamOutcomes == {"ok", "neterr"}
\* listings tried: empty, or one node that gives a record
StreamDocuments ==
    {<<>>} \cup {<<n>> : n \in {x \in PacingNodes : x.idsrc = "id"}}

\* src/app.py lines 237-264: the steps of one progress stream
StreamStep(c) ==
    \/ Call(c, TRUE, 1, TRUE)
    \/ RateLimit(c)
    \/ Wake(c)
    \/ Send(c)
    \/ \E o \in StreamOutcomes :
         \E d \in MarkupOf(o, StreamDocuments) : ListingResponse(c, o, d)
    \/ Loop(c)
    \/ \E o \in StreamOutcomes : ContentResponse(c, o, FALSE)

NextConcurrent ==
    \/ Tick
    \/ \E c \in Callers : StreamStep(c)

SpecConcurrent == Init /\ [][NextConcurrent]_vars

(***************************************************************************)
(* The extraction specification: scrape_subreddit as a function of the     *)
(* listing markup, its arguments and the outcomes of its requests.  Each   *)
(* fetch (rate limiter, sleep, request) is one step and the clock stands   *)
(* still: what is extracted does not depend on when.                       *)
(***************************************************************************)

\* lines 119-152 and 361-370: the rate-limited listing fetch
FetchListing(c, o, d) ==
    /\ pc[c] = "limit"
    /\ ListingFetched(c, o, d)
    /\ requests' = [requests EXCEPT ![c] = Issued(requests[c], thread_data[c])]
    /\ UNCHANGED <<now, random_delay, wake, net,
                   pureVars>>

\* fetch_thread_content (lines 387-448) called at line 347, and lines 348-353
FetchThreadContent(c, o, has_body) ==
    /\ pc[c] = "limit"
    /\ ContentFetched(c, o, has_body)
    /\ requests' = [requests EXCEPT ![c] = Issued(requests[c], thread_data[c])]
    /\ UNCHANGED <<now, random_delay, wake, net,
                   pureVars>>

NextExtract ==
    \E c \in SeqCallers :
      \/ \E has_name \in BOOLEAN, max \in 1..MaxThreads, full \in BOOLEAN :
           Call(c, has_name, max, full)
      \/ \E o \in Outcomes :
           \E d \in MarkupOf(o, Documents) : FetchListing(c, o, d)
      \/ Loop(c)
      \/ \E o \in Outcomes, has_body \in BOOLEAN : FetchThreadContent(c, o, has_body)

SpecExtract == Init /\ [][NextExtract]_vars

(***************************************************************************)
(* Text.  A string is the sequence of its characters.                      *)
(***************************************************************************)
DigitChars == <<"0", "1", "2", "3", "4", "5", "6", "7", "8", "9">>
IsDigit(ch) == \E v \in 1..Len(DigitChars) : DigitChars[v] = ch
DigitValue(ch) == (CHOOSE v \in 1..Len(DigitChars) : DigitChars[v] = ch) - 1
IsSpace(ch) == ch \in {" ", "\t", "\n"}

\* str(n) for n >= 0
RECURSIVE Digits(_)
Digits(n) == IF n < 10 THEN <<DigitChars[n + 1]>>
             ELSE Digits(n \div 10) \o <<DigitChars[(n % 10) + 1]>>

\* int(ds) for a run of digits
RECURSIVE IntOf(_)
IntOf(ds) == IF ds = <<>> THEN 0
             ELSE 10 * IntOf(SubSeq(ds, 1, Len(ds) - 1)) + DigitValue(ds[Len(ds)])

\* str.lower(), on the capitals the inputs use
LowerChar(ch) ==
    CASE ch = "C" -> "c" [] ch = "H" -> "h" [] ch = "J" -> "j" [] ch = "M" -> "m"
      [] ch = "N" -> "n" [] ch = "T" -> "t" [] ch = "U" -> "u" [] ch = "A" -> "a"
      [] ch = "D" -> "d" [] ch = "I" -> "i" [] OTHER -> ch
Lower(str) == [i \in 1..Len(str) |-> LowerChar(str[i])]

\* str.strip()
RECURSIVE LStrip(_)
LStrip(str) == IF str # <<>> /\ IsSpace(Head(str)) THEN LStrip(Tail(str)) ELSE str
RECURSIVE RStrip(_)
RStrip(str) == IF str # <<>> /\ IsSpace(str[Len(str)])
               THEN RStrip(SubSeq(str, 1, Len(str) - 1)) ELSE str
Strip(str) == RStrip(LStrip(str))

\* sub occurs in str at position k
StartsAt(str, k, sub) ==
    /\ k + Len(sub) - 1 <= Len(str)
    /\ SubSeq(str, k, k + Len(sub) - 1) = sub

\* sub in str
Contains(str, sub) == \E k \in 1..Len(str) : StartsAt(str, k, sub)

(***************************************************************************)
(* Instants and timestamp strings.  A datetime is a calendar day (its      *)
(* proleptic ordinal), the second of the day and the microsecond; a        *)
(* timedelta is days and seconds.  A timestamp string is described by its  *)
(* fields; "kind" tells an ISO-8601 timestamp ("iso"), a calendar date     *)
(* ("date"), any other text ("text") and a value that is no string         *)
(* ("none") apart.                                                         *)
(***************************************************************************)
SecondsPerMinute == 60
SecondsPerHour == 3600
SecondsPerDay == 86400
DaysPerWeek == 7
DaysPerMonth == 30
DaysPerYear == 365

\* datetime.isoformat() of a naive datetime
Isoformat(dt) ==
    [kind |-> "iso", date |-> dt.day,
     hh |-> dt.sec \div SecondsPerHour,
     mm |-> (dt.sec % SecondsPerHour) \div SecondsPerMinute,
     ss |-> dt.sec % SecondsPerMinute,
     us |-> dt.us, tz |-> FALSE]

\* datetime.fromisoformat accepts the string
Parseable(str) == str.kind \in {"iso", "date"}

\* datetime.fromisoformat(str), for a string it accepts; a calendar date is
\* midnight of that day; aware: the string carries a UTC offset
FromIsoformat(str) ==
    [day |-> str.date,
     sec |-> str.hh * SecondsPerHour + str.mm * SecondsPerMinute + str.ss,
     us |-> str.us, aware |-> str.tz]

\* a <= b on naive datetimes
Before(a, b) ==
    \/ a.day < b.day
    \/ a.day = b.day /\ a.sec < b.sec
    \/ a.day = b.day /\ a.sec = b.sec /\ a.us <= b.us

(***************************************************************************)
(* parse_relative_time (lines 45-79).                                      *)
(***************************************************************************)
Str_now == <<"n", "o", "w">>
Str_just_now == <<"j", "u", "s", "t", " ", "n", "o", "w">>
Str_min == <<"m", "i", "n">>
Str_hr == <<"h", "r">>
Str_hour == <<"h", "o", "u", "r">>
Str_day == <<"d", "a", "y">>
Str_week == <<"w", "e", "e", "k">>
Str_month == <<"m", "o", "n", "t", "h">>
Str_year == <<"y", "e", "a", "r">>
Str_Unknown == <<"U", "n", "k", "n", "o", "w", "n">>

\* line 55: the alternatives of the unit group, in order
Units == <<Str_min, Str_hr, Str_hour, Str_day, Str_week, Str_month, Str_year>>

\* the last position of the run of digits that starts at i
RECURSIVE DigitsEnd(_, _)
DigitsEnd(str, i) ==
    IF i + 1 <= Len(str) /\ IsDigit(str[i + 1]) THEN DigitsEnd(str, i + 1) ELSE i

\* the first position from k on that holds no white space
RECURSIVE SkipSpaces(_, _)
SkipSpaces(str, k) ==
    IF k <= Len(str) /\ IsSpace(str[k]) THEN SkipSpaces(str, k + 1) ELSE k

\* (\d+)\s*(min|hr|hour|day|week|month|year) matches at position i: the
\* digits and the white space are taken greedily, and giving some back
\* never helps, for no unit starts with a digit or a space
UnitsAt(str, i) ==
    {u \in 1..Len(Units) :
        StartsAt(str, SkipSpaces(str, DigitsEnd(str, i) + 1), Units[u])}
MatchesAt(str, i) == IsDigit(str[i]) /\ UnitsAt(str, i) # {}

Least(S) == CHOOSE x \in S : \A y \in S : x <= y

\* line 55: re.search, the leftmost match; lines 59-60: its two groups
Search(str) ==
    LET starts == {i \in 1..Len(str) : MatchesAt(str, i)}
    IN  IF starts = {} THEN [found |-> FALSE, value |-> 0, unit |-> <<>>]
        ELSE LET i == Least(starts)
             IN  [found |-> TRUE,
                  value |-> IntOf(SubSeq(str, i, DigitsEnd(str, i))),
                  unit  |-> Units[Least(UnitsAt(str, i))]]

\* timedelta(seconds=n), normalised
Timedelta(days, seconds) ==
    [days |-> days + seconds \div SecondsPerDay, seconds |-> seconds % SecondsPerDay]

\* lines 62-75: the duration of value units, a month being 31 days
DeltaOfLongMonth(value, unit) ==
    IF Contains(unit, Str_min) THEN Timedelta(0, value * SecondsPerMinute)
    ELSE IF Contains(unit, Str_hr) \/ Contains(unit, Str_hour)
         THEN Timedelta(0, value * SecondsPerHour)
    ELSE IF Contains(unit, Str_day) THEN Timedelta(value, 0)
    ELSE IF Contains(unit, Str_week) THEN Timedelta(value * DaysPerWeek, 0)
    ELSE IF Contains(unit, Str_month) THEN Timedelta(value * (DaysPerMonth + 1), 0)
    ELSE IF Contains(unit, Str_year) THEN Timedelta(value * DaysPerYear, 0)
    ELSE Timedelta(0, 0)

\* lines 62-75: the duration of value units
DeltaOf(value, unit) ==
    IF Contains(unit, Str_min) THEN Timedelta(0, value * SecondsPerMinute)
    ELSE IF Contains(unit, Str_hr) \/ Contains(unit, Str_hour)
         THEN Timedelta(0, value * SecondsPerHour)
    ELSE IF Contains(unit, Str_day) THEN Timedelta(value, 0)
    ELSE IF Contains(unit, Str_week) THEN Timedelta(value * DaysPerWeek, 0)
    ELSE IF Contains(unit, Str_month) THEN Timedelta(value * DaysPerMonth, 0)
    ELSE IF Contains(unit, Str_year) THEN Timedelta(value * DaysPerYear, 0)
    ELSE Timedelta(0, 0)

\* line 77: now - delta
Minus(dt, delta) ==
    IF dt.sec >= delta.seconds
    THEN [day |-> dt.day - delta.days, sec |-> dt.sec - delta.seconds, us |-> dt.us]
    ELSE [day |-> dt.day - delta.days - 1,
          sec |-> dt.sec - delta.seconds + SecondsPerDay, us |-> dt.us]

\* an exception leaves the try block
Raised == [kind |-> "raised", date |-> 0, hh |-> 0, mm |-> 0, ss |-> 0,
           us |-> 0, tz |-> FALSE]

\* lines 48-77: the try block; arg is the argument (type "str": a string
\* with characters chars; anything else has no lower()), dt the value of
\* datetime.now().  A datetime before day 1 does not exist: the subtraction
\* raises OverflowError.
TryParseRelativeTime(arg, dt) ==
    IF arg.type # "str" THEN Raised
    ELSE LET time_str == Strip(Lower(arg.chars))
         IN  IF Contains(time_str, Str_just_now) \/ Contains(time_str, Str_now)
             THEN Isoformat(dt)
             ELSE LET match == Search(time_str)
                  IN  IF ~match.found THEN Isoformat(dt)
                      ELSE LET delta == DeltaOf(match.value, match.unit)
                               then == Minus(dt, delta)
                           IN  IF then.day < 1 THEN Raised ELSE Isoformat(then)

\* parse_relative_time without its except clause
parse_relative_time_unguarded(arg, dt) == TryParseRelativeTime(arg, dt)

\* lines 45-79: parse_relative_time
parse_relative_time(arg, dt) ==
    LET r == TryParseRelativeTime(arg, dt)
    IN  IF r = Raised THEN Isoformat(dt) ELSE r

\* lines 177-178: the posted-time phrase of a legacy node; elem tells
\* whether the node has a <time> element and whether that carries a title
\* attribute, title is the attribute's value
LegacyPostedTime(elem, title) ==
    IF elem = "titled" THEN title ELSE Str_Unknown

\* line 329: created_date of a record whose posted-time phrase is posted_time
\* (a non-empty string here; an empty one is falsy)
CreatedDate(posted_time, dt) ==
    IF posted_time # <<>>
    THEN parse_relative_time([type |-> "str", chars |-> posted_time], dt)
    ELSE Isoformat(dt)

(***************************************************************************)
(* The specification of parse_relative_time: the argument and the clock    *)
(* are drawn in the initial state, one step makes the call.                *)
(***************************************************************************)
\* the largest number written in a phrase is MaxValue + 9
MaxValue == 3

\* the numbers of the phrases; -1: the phrase has no number
Values == {-1} \cup 0..MaxValue \cup {MaxValue + 9}
Prefixes == {<<>>, <<"a", " ">>, <<"7", " ">>}
Gaps == {<<>>, <<" ">>, <<" ", " ">>}
UnitWords == {Units[u] : u \in 1..Len(Units)} \cup
             {<<>>, <<"s", "e", "c">>, <<"m", "o">>}
AgoSuffixes == {<<" ", "a", "g", "o">>, <<".", " ", "a", "g", "o">>, <<"s", " ", "a", "g", "o">>}
Suffixes == AgoSuffixes \cup {<<>>, <<" ", "n", "o", "w">>}

\* the phrases prefix + number + gap + unit + suffix; form "relative" marks
\* the phrases "<n> <unit> ago"
BuiltPhrases ==
    {[via   |-> "call", type |-> "str", elem |-> "none",
      chars |-> pre \o (IF n < 0 THEN <<>> ELSE Digits(n)) \o gap \o unit \o suf,
      form  |-> IF /\ pre = <<>> /\ n >= 0 /\ gap = <<" ">>
                   /\ unit \in {Units[u] : u \in 1..Len(Units)}
                   /\ suf \in AgoSuffixes
                THEN "relative" ELSE "other",
      n |-> n, unit |-> unit, abs |-> NoInstant]
     : pre \in Prefixes, n \in Values, gap \in Gaps, unit \in UnitWords,
       suf \in Suffixes}

Special(str, form, type) ==
    [via |-> "call", type |-> type, elem |-> "none", chars |-> str,
     form |-> form, n |-> -1, unit |-> <<>>, abs |-> NoInstant]

\* other arguments: the phrases of immediacy, the sentinel, the empty
\* string, and a value that is not a string (None)
SpecialArguments ==
    {Special(Str_just_now, "immediate", "str"),
     Special(<<" ", "J", "u", "s", "t", " ", "N", "o", "w", " ">>, "immediate", "str"),
     Special(Str_now, "immediate", "str"),
     Special(Str_Unknown, "other", "str"),
     Special(<<>>, "other", "str"),
     Special(<<>>, "other", "none")}

TwoDigits(n) == IF n < 10 THEN <<"0">> \o Digits(n) ELSE Digits(n)

\* the title attribute of a legacy <time> element, e.g.
\* "Mon Nov 2 07:21:00 2026 UTC": the absolute time of the post (the
\* calendar date is written as the day's ordinal)
AbsoluteTitle(dt) ==
    LET iso == Isoformat(dt)
    IN  <<"M", "o", "n", " ", "N", "o", "v", " ">> \o Digits(dt.day) \o <<" ">>
        \o TwoDigits(iso.hh) \o <<":">> \o TwoDigits(iso.mm) \o <<":">>
        \o TwoDigits(iso.ss) \o <<" ", "U", "T", "C">>

\* posts are older than the scrape
PostInstants == [day : {739900, 739921}, sec : {0, 26460}, us : {0}]
ClockInstants == [day : {739922}, sec : {0, 30, 86399}, us : {0, 250000}]

\* the <time> element of a legacy node: absent, without title attribute,
\* or with the absolute time of the post as title
LegacyTimeElements ==
    {[via |-> "legacy", type |-> "str", elem |-> e, chars |-> <<>>,
      form |-> "other", n |-> -1, unit |-> <<>>, abs |-> NoInstant]
     : e \in {"absent", "untitled"}}
    \cup
    {[via |-> "legacy", type |-> "str", elem |-> "titled",
      chars |-> AbsoluteTitle(t), form |-> "absolute", n |-> -1,
      unit |-> <<>>, abs |-> t]
     : t \in PostInstants}

\* the text of Scenario C: the whole text of a modern node on one line
ScenarioText ==
    <<"M", "y", " ", "w", "i", "d", "g", "e", "t", " ", "b", "r", "o", "k",
      "e", " ", "a", "f", "t", "e", "r", " ", "a", " ", "w", "e", "e", "k",
      " ", "u", "/", "a", "l", "i", "c", "e", " ", "3", " ", "d", "a", "y",
      "s", " ", "a", "g", "o", " ", "D", "i", "s", "c", "u", "s", "s", "i",
      "o", "n", " ", "I", "t", " ", "s", "t", "o", "p", "p", "e", "d", " ",
      "w", "o", "r", "k", "i", "n", "g", " ", "e", "n", "t", "i", "r", "e",
      "l", "y">>
\* another such line, with a word that contains "now"
QuestionText ==
    <<"A", "n", "y", "o", "n", "e", " ", "k", "n", "o", "w", " ", "a", " ",
      "f", "i", "x", " ", "u", "/", "a", "l", "i", "c", "e", " ", "3", " ",
      "d", "a", "y", "s", " ", "a", "g", "o">>

\* whole lines of modern nodes, as lines 269-271 capture them for the
\* posted-time phrase
PostLines ==
    {Special(ScenarioText, "line", "str"), Special(QuestionText, "line", "str")}

InitTime ==
    /\ InitScraper /\ FilterIdle /\ ExtraIdle
    /\ time_in \in BuiltPhrases \cup SpecialArguments \cup LegacyTimeElements
                   \cup PostLines
    /\ dt_now \in ClockInstants
    /\ created_date = NoText

\* parse_relative_time is called with the argument
CallParseRelativeTime ==
    /\ time_in.via = "call"
    /\ created_date = NoText
    /\ created_date' = parse_relative_time(time_in, dt_now)
    /\ UNCHANGED <<time_in, dt_now, scraperVars, filterVars, extraVars>>

\* lines 176-178 and 329: a legacy node's time element becomes created_date
ExtractLegacyTime ==
    /\ time_in.via = "legacy"
    /\ created_date = NoText
    /\ created_date' =
           CreatedDate(LegacyPostedTime(time_in.elem, time_in.chars), dt_now)
    /\ UNCHANGED <<time_in, dt_now, scraperVars, filterVars, extraVars>>

NextTime == CallParseRelativeTime \/ ExtractLegacyTime

SpecTime == InitTime /\ [][NextTime]_vars

(***************************************************************************)
(* filter_by_date_range (lines 450-497).  A thread dictionary is described *)
(* by its created_date string, by whether its title is a string ("str") or *)
(* missing or None ("none"), and by its position in the input list.        *)
(***************************************************************************)
\* line 465: end_date + 'T23:59:59'; only a calendar date gives a timestamp
EndOfDay(str) ==
    IF str.kind = "date"
    THEN [kind |-> "iso", date |-> str.date, hh |-> 23, mm |-> 59, ss |-> 59,
          us |-> 0, tz |-> FALSE]
    ELSE [str EXCEPT !.kind = "text"]

\* lines 472-479 raise: the date does not parse, it is offset-aware and
\* cannot be compared with the naive bounds, or the title cannot be sliced
RecordRaises(thread) ==
    \/ ~Parseable(thread.created_date)
    \/ FromIsoformat(thread.created_date).aware
    \/ thread.title # "str"

\* line 473: start <= thread_date <= end
InRange(thread, start, end) ==
    LET thread_date == FromIsoformat(thread.created_date)
    IN  Before(start, thread_date) /\ Before(thread_date, end)

\* lines 487-490 with the record left out
OnRecordErrorDrop(acc, thread) == acc

\* lines 487-490: the record whose handling raised is included
OnRecordError(acc, thread) == Append(acc, thread)

\* lines 469-493: the loop from record i on; acc is the list filtered so
\* far.  raised: the warning at line 489 slices the title and raises in
\* turn, which leaves the outer try block
RECURSIVE FilterFrom(_, _, _, _, _)
FilterFrom(ths, i, start, end, acc) ==
    IF i > Len(ths) THEN [raised |-> FALSE, value |-> acc]
    ELSE IF RecordRaises(ths[i])
         THEN IF ths[i].title # "str"
              THEN [raised |-> TRUE, value |-> <<>>]
              ELSE FilterFrom(ths, i + 1, start, end, OnRecordError(acc, ths[i]))
         ELSE IF InRange(ths[i], start, end)
              THEN FilterFrom(ths, i + 1, start, end, Append(acc, ths[i]))
              ELSE FilterFrom(ths, i + 1, start, end, acc)

\* lines 462-497: filter_by_date_range
filter_by_date_range(ths, start_str, end_str) ==
    IF ~Parseable(start_str) \/ ~Parseable(EndOfDay(end_str))
    THEN ths
    ELSE LET r == FilterFrom(ths, 1, FromIsoformat(start_str),
                             FromIsoformat(EndOfDay(end_str)), <<>>)
         IN  IF r.raised THEN ths ELSE r.value

(***************************************************************************)
(* The specification of filter_by_date_range: the arguments are drawn in   *)
(* the initial state, one step makes the call.                             *)
(***************************************************************************)
\* the longest list of records filtered
MaxRecords == 2

DateString(d) == [kind |-> "date", date |-> d, hh |-> 0, mm |-> 0, ss |-> 0,
                  us |-> 0, tz |-> FALSE]
NotADate == [kind |-> "text", date |-> 0, hh |-> 0, mm |-> 0, ss |-> 0,
             us |-> 0, tz |-> FALSE]

\* 2024-01-01 and 2024-01-02
RangeDays == {738886, 738887}
\* 00:00:00, 23:00:00, 23:59:59 and 23:59:59.5
RecordInstants ==
    {[day |-> d, sec |-> t[1], us |-> t[2]] :
        d \in RangeDays,
        t \in {<<0, 0>>, <<82800, 0>>, <<86399, 0>>, <<86399, 500000>>}}

\* created_date values: timestamps as isoformat() writes them, one with a
\* UTC offset, one that is no timestamp, and a missing one
CreatedDates ==
    {Isoformat(t) : t \in RecordInstants}
    \cup {[Isoformat([day |-> 738886, sec |-> 82800, us |-> 0]) EXCEPT !.tz = TRUE],
          NotADate, NoText}

RecordKinds == [created_date : CreatedDates, title : {"str", "none"}]

RecordLists ==
    UNION { {[i \in 1..n |-> [pos |-> i, created_date |-> f[i].created_date,
                              title |-> f[i].title]] : f \in [1..n -> RecordKinds]}
            : n \in 0..MaxRecords }

InitFilter ==
    /\ InitScraper /\ TimeIdle /\ ExtraIdle
    /\ records \in RecordLists
    /\ start_date \in {DateString(d) : d \in RangeDays} \cup {NotADate}
    /\ end_date \in {DateString(d) : d \in RangeDays} \cup {NotADate}
    /\ filtered = [done |-> FALSE, value |-> <<>>]

\* filter_by_date_range is called
CallFilter ==
    /\ ~filtered.done
    /\ filtered' = [done |-> TRUE,
                    value |-> filter_by_date_range(records, start_date, end_date)]
    /\ UNCHANGED <<records, start_date, end_date, scraperVars, timeVars,
                   extraVars>>

NextFilter == CallFilter

SpecFilter == InitFilter /\ [][NextFilter]_vars


(***************************************************************************)
(* The content of a record (lines 188-207, 317-326, 347-349 and 411-444).  *)
(* Only lengths matter: a text is described by its number of characters,   *)
(* Absent standing for an element that the markup does not contain.        *)
(***************************************************************************)
Absent == -1

\* the slices and thresholds of the code
UsertextLimit == 1000
EntryLimit == 500
MinContent == 20
PostTextLimit == 200
MaxContentParts == 3
FetchedLimit == 3000
MinBody == 10
\* len("Link post: ") and len("No content available")
LinkPostPrefix == 11
NoContentAvailable == 20

Min(a, b) == IF a <= b THEN a ELSE b

\* len(' '.join(parts))
RECURSIVE JoinLen(_)
JoinLen(parts) ==
    IF parts = <<>> THEN 0
    ELSE IF Len(parts) = 1 THEN parts[1]
    ELSE parts[1] + 1 + JoinLen(Tail(parts))

\* lines 188-207: the content of a legacy node.  usertext: the text of the
\* usertext-body of the expando; entry: the text of div.entry; title: the
\* text of a.title
LegacyContent(n) ==
    LET try1 == IF n.usertext # Absent THEN Min(n.usertext, UsertextLimit) ELSE 0
        try2 == IF try1 = 0 /\ n.entry # Absent THEN Min(n.entry, EntryLimit)
                ELSE try1
    IN  IF try2 < MinContent
        THEN IF n.title > 0
             THEN [kind |-> "placeholder", len |-> LinkPostPrefix + n.title]
             ELSE [kind |-> "placeholder", len |-> NoContentAvailable]
        ELSE [kind |-> IF try1 > 0 THEN "rich" ELSE "snippet", len |-> try2]

\* lines 317-326: the content of a modern node.  content_parts: the lines
\* after the flair or time line; post_text: the whole text of the node
ModernContent(n) ==
    IF n.content_parts # <<>>
    THEN [kind |-> "snippet",
          len |-> JoinLen(Take(n.content_parts, MaxContentParts))]
    ELSE [kind |-> "snippet", len |-> Min(n.post_text, PostTextLimit)]

InlineContent(n) ==
    IF n.schema = "legacy" THEN LegacyContent(n) ELSE ModernContent(n)

\* lines 411-444: what fetch_thread_content returns for a thread page.
\* body: the self-text found in the first expando; fallback: the one found
\* in the first div.thing
FetchedContent(page) ==
    IF page.body # Absent /\ page.body > MinBody
    THEN Min(page.body, FetchedLimit)
    ELSE IF page.fallback # Absent /\ page.fallback > MinBody
         THEN Min(page.fallback, FetchedLimit)
         ELSE 0

\* lines 345-349: the content of the record emitted
RecordContent(n) ==
    IF n.fetch /\ FetchedContent(n.page) > 0
    THEN [kind |-> "fetched", len |-> FetchedContent(n.page)]
    ELSE InlineContent(n)

(***************************************************************************)
(* The specification of the content extraction: the node and the thread    *)
(* page are drawn in the initial state, one step extracts the content.     *)
(***************************************************************************)
\* how far beyond a limit of the code the lengths tried go
MaxExcess == 1
\* a text far longer than every limit
LongText == 5000

LineLengths == {1, PostTextLimit, LongText}

NoPage == [body |-> Absent, fallback |-> Absent]
Pages == {NoPage} \cup
         [body : {Absent, 0, MinBody, MinBody + 1, FetchedLimit + MaxExcess, LongText},
          fallback : {Absent, MinBody + 1, LongText}]
Fetches == {[fetch |-> FALSE, page |-> NoPage]} \cup
           {[fetch |-> TRUE, page |-> pg] : pg \in Pages}

\* a legacy node that gives a record has a title element (line 342)
LegacyBodies ==
    {[schema |-> "legacy", usertext |-> u, entry |-> e, title |-> t,
      content_parts |-> <<>>, post_text |-> 0, fetch |-> f.fetch, page |-> f.page] :
        u \in {Absent, 0, MinContent - 1, UsertextLimit, UsertextLimit + MaxExcess, LongText},
        e \in {Absent, 0, MinContent - 1, EntryLimit, EntryLimit + MaxExcess, LongText},
        t \in {0, 1, EntryLimit, LongText},
        f \in Fetches}

ModernBodies ==
    {[schema |-> "modern", usertext |-> Absent, entry |-> Absent, title |-> 1,
      content_parts |-> ps, post_text |-> JoinLen(ps) + t, fetch |-> f.fetch,
      page |-> f.page] :
        ps \in UNION {[1..k -> LineLengths] : k \in 0..(MaxContentParts + 1)},
        t \in {1, PostTextLimit, PostTextLimit + MaxExcess, LongText},
        f \in Fetches}

InitBody ==
    /\ InitScraper /\ TimeIdle /\ FilterIdle /\ UrlIdle /\ StoreIdle
    /\ LaterIdle
    /\ body_in \in LegacyBodies \cup ModernBodies
    /\ content = NoContent

\* lines 188-207 or 317-326, and 345-349
ExtractContent ==
    /\ content = NoContent
    /\ content' = RecordContent(body_in)
    /\ UNCHANGED <<body_in, scraperVars, timeVars, filterVars, urlVars,
                   storeVars, laterVars>>

NextBody == ExtractContent

SpecBody == InitBody /\ [][NextBody]_vars

(***************************************************************************)
(* The caller's URL: extract_subreddit_name (lines 30-43) and the          *)
(* normalization at the head of scrape_subreddit (lines 100-117).          *)
(***************************************************************************)
Str_http == <<"h", "t", "t", "p">>
Str_old_reddit == <<"o", "l", "d", ".", "r", "e", "d", "d", "i", "t", ".", "c", "o", "m">>
Str_www_reddit == <<"w", "w", "w", ".", "r", "e", "d", "d", "i", "t", ".", "c", "o", "m">>
Str_reddit == <<"r", "e", "d", "d", "i", "t", ".", "c", "o", "m">>
Str_slash == <<"/">>
Str_sort_new == <<"/", "n", "e", "w">>
Str_sort_hot == <<"/", "h", "o", "t">>
Str_sort_top == <<"/", "t", "o", "p">>
Str_sort_rising == <<"/", "r", "i", "s", "i", "n", "g">>
Str_listing_base == <<"h", "t", "t", "p", "s", ":", "/", "/", "o", "l", "d", ".", "r", "e", "d", "d", "i", "t", ".", "c", "o", "m", "/", "r", "/">>
Str_new_segment == <<"/", "n", "e", "w", "/">>

StartsWith(str, sub) == StartsAt(str, 1, sub)
EndsWith(str, sub) ==
    Len(sub) <= Len(str) /\ SubSeq(str, Len(str) - Len(sub) + 1, Len(str)) = sub

\* str.replace(old, new): every occurrence, from the left
RECURSIVE Replace(_, _, _)
Replace(str, old, new) ==
    IF str = <<>> THEN <<>>
    ELSE IF StartsAt(str, 1, old)
         THEN new \o Replace(SubSeq(str, Len(old) + 1, Len(str)), old, new)
         ELSE <<Head(str)>> \o Replace(Tail(str), old, new)

\* str.rstrip('/')
RECURSIVE RStripSlash(_)
RStripSlash(str) ==
    IF str # <<>> /\ str[Len(str)] = "/"
    THEN RStripSlash(SubSeq(str, 1, Len(str) - 1)) ELSE str

\* line 36: the class [^/\s?&#]
IsNameChar(ch) == ~IsSpace(ch) /\ ch \notin {"/", "?", "&", "#"}

\* line 36: where r/ begins if /?r/([^/\s?&#]+) matches at position k (0: no
\* match); re.IGNORECASE lets R stand for r
NameStartAt(str, k) ==
    LET j == IF str[k] = "/" THEN k + 1 ELSE k
    IN  IF /\ j + 2 <= Len(str)
           /\ str[j] \in {"r", "R"}
           /\ str[j + 1] = "/"
           /\ IsNameChar(str[j + 2])
        THEN j + 2 ELSE 0

\* the end of the run of name characters that begins at position k
RECURSIVE NameEnd(_, _)
NameEnd(str, k) ==
    IF k < Len(str) /\ IsNameChar(str[k + 1]) THEN NameEnd(str, k + 1) ELSE k

\* lines 30-43: extract_subreddit_name; found is FALSE for None
extract_subreddit_name(url_arg) ==
    LET url == Strip(url_arg)
        hits == {k \in 1..Len(url) : NameStartAt(url, k) # 0}
    IN  IF hits = {} THEN [found |-> FALSE, name |-> <<>>]
        ELSE LET from == NameStartAt(url, Least(hits))
             IN  [found |-> TRUE,
                  name |-> Strip(SubSeq(url, from, NameEnd(url, from)))]

\* lines 106-111: the host becomes old.reddit.com
OldRedditHost(url) ==
    IF Contains(url, Str_old_reddit) THEN url
    ELSE IF Contains(url, Str_www_reddit)
         THEN Replace(url, Str_www_reddit, Str_old_reddit)
         ELSE IF Contains(url, Str_reddit)
              THEN Replace(url, Str_reddit, Str_old_reddit)
              ELSE url

\* line 116: a sort is taken to be specified already
SortSpecified(url) ==
    \/ Contains(url, Str_sort_new) \/ Contains(url, Str_sort_hot)
    \/ Contains(url, Str_sort_top) \/ Contains(url, Str_sort_rising)

\* lines 102-117: the URL that is requested
NormalizedUrl(subreddit_url, subreddit_name) ==
    IF ~StartsWith(subreddit_url, Str_http)
    THEN Str_listing_base \o subreddit_name \o Str_new_segment
    ELSE LET hosted == OldRedditHost(subreddit_url)
             slashed == IF EndsWith(hosted, Str_slash) THEN hosted
                        ELSE hosted \o Str_slash
         IN  IF ~SortSpecified(slashed)
             THEN RStripSlash(slashed) \o Str_new_segment
             ELSE slashed

(***************************************************************************)
(* The specification of the URL normalization: the URL is drawn in the     *)
(* initial state, one step is the head of scrape_subreddit.                *)
(***************************************************************************)
UrlPrefixes == {<<>>, <<"h", "t", "t", "p", "s", ":", "/", "/", "w", "w", "w", ".", "r", "e", "d", "d", "i", "t", ".", "c", "o", "m", "/">>, <<"h", "t", "t", "p", "s", ":", "/", "/", "r", "e", "d", "d", "i", "t", ".", "c", "o", "m", "/">>,
                <<"h", "t", "t", "p", "s", ":", "/", "/", "o", "l", "d", ".", "r", "e", "d", "d", "i", "t", ".", "c", "o", "m", "/">>, <<"h", "t", "t", "p", ":", "/", "/", "w", "w", "w", ".", "r", "e", "d", "d", "i", "t", ".", "c", "o", "m", "/">>}
ListingNames == {<<"p", "y", "t", "h", "o", "n">>, <<"n", "e", "w", "s">>, <<"h", "o", "t", "e", "l", "s">>, <<"R", "u", "s", "t">>}
SortNames == {<<"n", "e", "w">>, <<"h", "o", "t">>, <<"t", "o", "p">>, <<"r", "i", "s", "i", "n", "g">>}
UrlSuffixes == {<<>>, Str_slash} \cup
               {Str_slash \o srt : srt \in SortNames} \cup
               {Str_slash \o srt \o Str_slash : srt \in SortNames}
ListingMarks == {<<"r", "/">>, <<"R", "/">>}

\* URLs of a listing, and strings without listing name
ListingUrls ==
    {pre \o mark \o nm \o suf :
        pre \in UrlPrefixes, mark \in ListingMarks, nm \in ListingNames,
        suf \in UrlSuffixes}
NamelessUrls == {<<>>, <<"p", "y", "t", "h", "o", "n">>, <<"h", "t", "t", "p", "s", ":", "/", "/", "w", "w", "w", ".", "r", "e", "d", "d", "i", "t", ".", "c", "o", "m", "/">>, <<" ">>}

InitUrl ==
    /\ InitScraper /\ TimeIdle /\ FilterIdle /\ BodyIdle /\ StoreIdle
    /\ LaterIdle
    /\ url_in \in ListingUrls \cup NamelessUrls
    /\ url_out = NoUrl

\* lines 93-117: the name is extracted and the URL normalized
NormalizeUrl ==
    /\ ~url_out.done
    /\ LET nm == extract_subreddit_name(url_in)
       IN  url_out' =
             IF nm.found
             THEN [done |-> TRUE, found |-> TRUE, name |-> nm.name,
                   value |-> NormalizedUrl(url_in, nm.name)]
             ELSE [done |-> TRUE, found |-> FALSE, name |-> <<>>, value |-> <<>>]
    /\ UNCHANGED <<url_in, scraperVars, timeVars, filterVars, bodyVars,
                   storeVars, laterVars>>

NextUrl == NormalizeUrl

SpecUrl == InitUrl /\ [][NextUrl]_vars

(***************************************************************************)
(* The threads table, insert_thread and update_thread_summary              *)
(* (src/database.py lines 11-75 and 106-130), and the save loop of the     *)
(* progress stream (src/app.py lines 286-301).                             *)
(* A row is its id, its thread_id, the fields written by the insert        *)
(* ("fields": which version of the record they come from) and the columns  *)
(* written by the summary: summary, ai_tags and summarized_at.             *)
(***************************************************************************)
\* the largest id the table hands out
MaxRowId == 2
\* the longest list of records one stream saves
MaxBatch == 1

\* SQL NULL, Python None
Null == "null"

ThreadIds == {"a", "b"}
\* thread_data.get('thread_id') is None for a record without the key
StoreRecords == [thread_id : ThreadIds \cup {Null}, fields : {"v1", "v2"}]
Batches == UNION { [1..n -> StoreRecords] : n \in 1..MaxBatch }

\* the summaries and tag strings written to a row
Summaries == {"s1"}
TagStrings == {Null, "t1"}

\* line 20: thread_id TEXT UNIQUE; NULL is distinct from every value, itself
\* included
StoredIds(table) == {r.thread_id : r \in table} \ {Null}

Conflicting(table, rec) ==
    {r \in table : r.thread_id # Null /\ r.thread_id = rec.thread_id}

\* lines 52-68 with an upsert in place of the replacement: the columns the
\* statement does not list keep the values of the row that was there
InsertOrUpdate(table, id, rec) ==
    (table \ Conflicting(table, rec)) \cup
    (IF Conflicting(table, rec) = {}
     THEN {[id |-> id, thread_id |-> rec.thread_id, fields |-> rec.fields,
            summary |-> Null, ai_tags |-> Null, summarized_at |-> Null]}
     ELSE {[r EXCEPT !.fields = rec.fields] : r \in Conflicting(table, rec)})

\* lines 52-68: INSERT OR REPLACE: a row with the same thread_id (the column
\* is UNIQUE) is deleted; the new row takes the next id (AUTOINCREMENT) and
\* the columns the statement does not list (summary, ai_tags, summarized_at)
\* get their default, NULL
InsertOrReplace(table, id, rec) ==
    (table \ Conflicting(table, rec)) \cup
    {[id |-> id, thread_id |-> rec.thread_id, fields |-> rec.fields,
      summary |-> Null, ai_tags |-> Null, summarized_at |-> Null]}

\* lines 46-75: insert_thread; db_ok is FALSE when connect, execute or commit
\* raises (a locked database, a violated NOT NULL constraint)
insert_thread(table, id, rec, db_ok) ==
    IF db_ok
    THEN [rows |-> InsertOrReplace(table, id, rec), next_id |-> id + 1,
          result |-> TRUE]
    ELSE [rows |-> table, next_id |-> id, result |-> FALSE]

\* lines 106-130: update_thread_summary: the row with that id, if there is
\* one, gets the summary and the time of the update, and the tags when a
\* non-empty tag string is given (line 112); db_ok as for insert_thread
update_thread_summary(table, id, summary, ai_tags, db_ok) ==
    IF db_ok
    THEN [rows |-> {IF r.id = id
                    THEN [r EXCEPT !.summary = summary,
                                   !.ai_tags = IF ai_tags # Null THEN ai_tags
                                               ELSE @,
                                   !.summarized_at = "set"]
                    ELSE r : r \in table},
          result |-> TRUE]
    ELSE [rows |-> table, result |-> FALSE]

\* src/app.py lines 286-287: a stream begins to save the records it scraped
\* (streams that found no thread return before, line 266)
StartSaving(b) ==
    /\ save_pos = 0 \/ save_pos > Len(batch)
    /\ batch' = b
    /\ save_pos' = 1
    /\ saved_count' = 0
    /\ skipped_count' = 0
    /\ fresh_count' = 0
    /\ UNCHANGED <<rows, next_id, last_insert,
                   scraperVars, timeVars, filterVars, bodyVars, urlVars,
                   laterVars>>

\* src/app.py lines 289-298: one iteration of the save loop
SaveThread(db_ok) ==
    /\ save_pos \in 1..Len(batch)
    /\ next_id <= MaxRowId
    /\ LET rec == batch[save_pos]
           existed == rec.thread_id \in StoredIds(rows)
           ins == insert_thread(rows, next_id, rec, db_ok)
       IN  /\ rows' = ins.rows
           /\ next_id' = ins.next_id
           /\ saved_count' = IF ins.result THEN saved_count + 1 ELSE saved_count
           /\ skipped_count' = IF ins.result THEN skipped_count
                               ELSE skipped_count + 1
           /\ fresh_count' = IF db_ok /\ ~existed THEN fresh_count + 1
                             ELSE fresh_count
           /\ last_insert' = [called |-> TRUE, thread_id |-> rec.thread_id,
                              existed |-> existed, inserted |-> db_ok,
                              result |-> ins.result, fields |-> rec.fields,
                              summarized |->
                                  \E r \in Conflicting(rows, rec) :
                                      /\ r.summary # Null
                                      /\ r.ai_tags # Null
                                      /\ r.summarized_at # Null]
    /\ save_pos' = save_pos + 1
    /\ UNCHANGED <<batch,
                   scraperVars, timeVars, filterVars, bodyVars, urlVars,
                   laterVars>>

\* src/app.py lines 160 and 193: a summary is stored for the row with an id
UpdateSummary(id, summary, ai_tags, db_ok) ==
    /\ rows' = update_thread_summary(rows, id, summary, ai_tags, db_ok).rows
    /\ UNCHANGED <<next_id, batch, save_pos, saved_count, skipped_count,
                   fresh_count, last_insert,
                   scraperVars, timeVars, filterVars, bodyVars, urlVars,
                   laterVars>>

InitStore ==
    /\ InitScraper /\ TimeIdle /\ FilterIdle /\ BodyIdle /\ UrlIdle
    /\ StoreIdle /\ LaterIdle

NextStore ==
    \/ \E b \in Batches : StartSaving(b)
    \/ \E db_ok \in BOOLEAN : SaveThread(db_ok)
    \/ \E id \in 1..MaxRowId, summary \in Summaries, ai_tags \in TagStrings,
          db_ok \in BOOLEAN : UpdateSummary(id, summary, ai_tags, db_ok)

SpecStore == InitStore /\ [][NextStore]_vars

(***************************************************************************)
(* The fields of a modern node (lines 219-326 and 330-340): the node's     *)
(* text is cut into lines and the fields are recovered from the lines by   *)
(* a cascade of heuristics.                                                *)
(***************************************************************************)
\* Python's None: a value that is no text (a text has one character per
\* element)
None == <<"None">>
\* not x, for x a text or None
Falsy(x) == x = None \/ x = <<>>

Str_ago == <<"a", "g", "o">>
Str_u_slash == <<"u", "/">>
Str_dot == <<".">>
Str_Post == <<"P", "o", "s", "t", " ">>
Str_General == <<"G", "e", "n", "e", "r", "a", "l">>

\* line 242
known_flairs ==
    <<<<"D", "i", "s", "c", "u", "s", "s", "i", "o", "n">>,
      <<"S", "c", "a", "m">>,
      <<"S", "u", "p", "p", "o", "r", "t">>,
      <<"Q", "u", "e", "s", "t", "i", "o", "n">>,
      <<"M", "e", "t", "a">>,
      <<"G", "e", "n", "e", "r", "a", "l">>,
      <<"R", "u", "m", "o", "r">>,
      <<"N", "e", "w", "s">>>>

\* the thresholds and slices of the cascade
MinTitleLine == 20
MaxTitleWords == 10
MinTitle == 3
MinAltLine == 10
FirstLineLimit == 100

\* \w, on the characters the texts use
WordChars == {"a", "b", "c", "d", "e", "f", "g", "h", "i", "j", "k", "l",
    "m", "n", "o", "p", "q", "r", "s", "t", "u", "v", "w", "x", "y", "z",
    "A", "B", "C", "D", "E", "F", "G", "H", "I", "J", "K", "L", "M", "N",
    "O", "P", "Q", "R", "S", "T", "U", "V", "W", "X", "Y", "Z", "0", "1",
    "2", "3", "4", "5", "6", "7", "8", "9", "_"}
\* the class [\w-]
IsHandleChar(ch) == ch \in WordChars \/ ch = "-"
\* the class [•·]: the glyphs U+2022 and U+00B7, each one character
Bullets == {"bullet", "middle dot"}

\* u/[\w-]+ matches at position k
HandleAt(str, k) ==
    /\ StartsAt(str, k, Str_u_slash)
    /\ k + 2 <= Len(str)
    /\ IsHandleChar(str[k + 2])

\* the end of the run of handle characters that contains position k
RECURSIVE HandleEnd(_, _)
HandleEnd(str, k) ==
    IF k + 1 <= Len(str) /\ IsHandleChar(str[k + 1]) THEN HandleEnd(str, k + 1)
    ELSE k

\* str.split('\n')
RECURSIVE SplitLines(_)
SplitLines(str) ==
    LET breaks == {k \in 1..Len(str) : str[k] = "\n"}
    IN  IF breaks = {} THEN <<str>>
        ELSE LET k == Least(breaks)
             IN  <<SubSeq(str, 1, k - 1)>>
                 \o SplitLines(SubSeq(str, k + 1, Len(str)))

\* line 230: the non-empty lines of the text, stripped
LinesOf(text) ==
    LET parts == SplitLines(text)
    IN  SelectSeq([i \in 1..Len(parts) |-> Strip(parts[i])],
                  LAMBDA l : l # <<>>)

\* str.split(): the words of a text
RECURSIVE SplitWords(_)
SplitWords(str) ==
    LET s == LStrip(str)
        spaces == {k \in 1..Len(s) : IsSpace(s[k])}
        e == IF spaces = {} THEN Len(s) + 1 ELSE Least(spaces)
    IN  IF s = <<>> THEN <<>>
        ELSE <<SubSeq(s, 1, e - 1)>> \o SplitWords(SubSeq(s, e, Len(s)))

\* ' '.join(words)
RECURSIVE JoinSpace(_)
JoinSpace(words) ==
    IF words = <<>> THEN <<>>
    ELSE IF Len(words) = 1 THEN words[1]
    ELSE words[1] \o <<" ">> \o JoinSpace(Tail(words))

\* line 251: group 1 of re.match(r'^(.+?)\s+u/[\w-]+', line), None without
\* match: the shortest head of the line that white space and a handle follow
TitleBeforeHandle(line) ==
    LET ks == {k \in 1..(Len(line) - 1) :
                  /\ IsSpace(line[k + 1])
                  /\ HandleAt(line, SkipSpaces(line, k + 1))}
    IN  IF ks = {} THEN None ELSE SubSeq(line, 1, Least(ks))

\* lines 255-257: 'u/' + group 1 of re.search(r'u/([\w-]+)', line)
FirstHandle(line) ==
    LET ks == {k \in 1..Len(line) : HandleAt(line, k)}
    IN  IF ks = {} THEN None
        ELSE SubSeq(line, Least(ks), HandleEnd(line, Least(ks) + 2))

\* lines 247-259: the title candidate, and the author found with it
TitleStep(st, line) ==
    IF Len(line) > MinTitleLine /\ Falsy(st.title) /\ ~Contains(line, Str_ago)
    THEN IF Contains(line, Str_u_slash)
         THEN LET m == TitleBeforeHandle(line)
              IN  IF m = None THEN st
                  ELSE [st EXCEPT !.title = Strip(m),
                                  !.author = IF Falsy(st.author)
                                             THEN FirstHandle(line)
                                             ELSE st.author]
         ELSE [st EXCEPT !.title = line]
    ELSE st

\* lines 262-266: the author on a line of its own, and the time after it
AuthorStep(st, lines, i) ==
    IF StartsAt(lines[i], 1, Str_u_slash) /\ Falsy(st.author)
    THEN [st EXCEPT !.author = lines[i],
                    !.posted_time =
                        IF /\ i + 1 <= Len(lines)
                           /\ \/ Contains(lines[i + 1], Str_ago)
                              \/ Contains(lines[i + 1], Str_hr)
                        THEN lines[i + 1] ELSE st.posted_time]
    ELSE st

\* lines 269-271: the first line that looks like a time
TimeStep(st, line) ==
    IF /\ \/ Contains(line, Str_ago)
          \/ Contains(line, Str_hr) /\ Contains(line, Str_dot)
       /\ Falsy(st.posted_time)
    THEN [st EXCEPT !.posted_time = line]
    ELSE st

\* lines 274-275: a line that is a known flair
FlairStep(st, line) ==
    IF \E f \in 1..Len(known_flairs) : known_flairs[f] = line
    THEN [st EXCEPT !.flair = line]
    ELSE st

\* lines 245-275: the loop over the lines, from line i on
RECURSIVE ScanLines(_, _, _)
ScanLines(st, lines, i) ==
    IF i > Len(lines) THEN st
    ELSE ScanLines(FlairStep(TimeStep(AuthorStep(TitleStep(st, lines[i]),
                                                 lines, i),
                                      lines[i]),
                             lines[i]),
                   lines, i + 1)

\* where the token of the given kind that starts at position k ends (0: no
\* token there)
TokenEnd(str, k, kind) ==
    IF kind = "handle"
    THEN IF HandleAt(str, k) THEN HandleEnd(str, k + 2) ELSE 0
    ELSE IF k <= Len(str) /\ str[k] \in Bullets THEN k ELSE 0

\* lines 280 and 282: re.sub(r'\s*<token>\s*', ' ', str), the token being a
\* handle u/[\w-]+ or a bullet [•·]; the white space is taken greedily
RECURSIVE SubSpaced(_, _)
SubSpaced(str, kind) ==
    LET starts == {i \in 1..Len(str) :
                      TokenEnd(str, SkipSpaces(str, i), kind) > 0}
    IN  IF starts = {} THEN str
        ELSE LET i == Least(starts)
                 e == TokenEnd(str, SkipSpaces(str, i), kind)
             IN  SubSeq(str, 1, i - 1) \o <<" ">>
                 \o SubSpaced(SubSeq(str, SkipSpaces(str, e + 1), Len(str)),
                              kind)

\* str.replace(old, ''): every occurrence of old, from the left, is taken out
RECURSIVE Removed(_, _)
Removed(str, old) ==
    LET hits == {k \in 1..Len(str) : StartsAt(str, k, old)}
    IN  IF hits = {} THEN str
        ELSE SubSeq(str, 1, Least(hits) - 1)
             \o Removed(SubSeq(str, Least(hits) + Len(old), Len(str)), old)

\* lines 284-285: the known flairs are taken out, from flair f on
RECURSIVE RemoveFlairs(_, _)
RemoveFlairs(str, f) ==
    IF f > Len(known_flairs) THEN str
    ELSE RemoveFlairs(Removed(str, known_flairs[f]), f + 1)

\* lines 289-295: a title whose first half comes again is cut to that half
CollapseRepeat(title) ==
    LET words == SplitWords(title)
        half == Len(words) \div 2
        first_half == JoinSpace(SubSeq(words, 1, half))
    IN  IF /\ Len(words) > MaxTitleWords
           /\ Contains(SubSeq(title, Len(first_half) + 1, Len(title)),
                       first_half)
        THEN first_half ELSE title

\* lines 278-296: the cleanup of a title found by the loop
CleanTitle(title) ==
    IF Falsy(title) THEN title
    ELSE Strip(CollapseRepeat(JoinSpace(SplitWords(
             RemoveFlairs(SubSpaced(SubSpaced(title, "handle"), "bullet"),
                          1)))))

\* not title or len(title) < 3
TooShort(title) == Falsy(title) \/ Len(title) < MinTitle

\* lines 301-308: the first substantial line without handle and time, from
\* line i on
RECURSIVE AltTitle(_, _, _)
AltTitle(title, lines, i) ==
    IF i > Len(lines) THEN title
    ELSE IF /\ Len(lines[i]) > MinAltLine
            /\ ~Contains(lines[i], Str_u_slash)
            /\ ~Contains(lines[i], Str_ago)
         THEN LET t == Strip(JoinSpace(SplitWords(
                           SubSpaced(SubSpaced(lines[i], "handle"), "bullet"))))
              IN  IF Len(t) >= MinTitle THEN t ELSE AltTitle(t, lines, i + 1)
         ELSE AltTitle(title, lines, i + 1)

\* lines 311-315: the first line, or the identifier
FallbackTitle(lines, post_id) ==
    IF lines # <<>> THEN Take(lines[1], FirstLineLimit) ELSE Str_Post \o post_id

\* lines 278-315: the title of the record
TitleOf(found, lines, post_id) ==
    LET cleaned == CleanTitle(found)
        second == IF TooShort(cleaned) THEN AltTitle(cleaned, lines, 1)
                  ELSE cleaned
    IN  IF TooShort(second) THEN FallbackTitle(lines, post_id) ELSE second

\* lines 318-324: the lines after the flair or time line that are no field,
\* from line i on
RECURSIVE ContentParts(_, _, _, _)
ContentParts(lines, i, content_start, st) ==
    IF i > Len(lines) THEN <<>>
    ELSE IF /\ content_start
            /\ lines[i] \notin {st.title, st.author, st.posted_time, st.flair}
         THEN <<lines[i]>> \o ContentParts(lines, i + 1, content_start, st)
         ELSE IF \/ lines[i] = st.flair
                 \/ ~Falsy(st.posted_time) /\ lines[i] = st.posted_time
              THEN ContentParts(lines, i + 1, TRUE, st)
              ELSE ContentParts(lines, i + 1, content_start, st)

\* lines 230-326 and 330-340: the fields of the record of a modern node
\* with text post_text and identifier post_id
ModernFields(text, post_id) ==
    LET lines == LinesOf(text)
        scanned == ScanLines([title |-> None, author |-> None,
                              posted_time |-> None, flair |-> None], lines, 1)
        st == [scanned EXCEPT !.title = TitleOf(scanned.title, lines, post_id)]
        content_parts == ContentParts(lines, 1, FALSE, st)
    IN  [done |-> TRUE,
         title |-> st.title,
         author |-> IF Falsy(st.author) THEN Str_Unknown ELSE st.author,
         posted_time |-> IF Falsy(st.posted_time) THEN Str_Unknown
                         ELSE st.posted_time,
         flair |-> IF Falsy(st.flair) THEN Str_General ELSE st.flair,
         content |-> IF content_parts # <<>>
                     THEN JoinSpace(Take(content_parts, MaxContentParts))
                     ELSE Take(text, PostTextLimit)]

(***************************************************************************)
(* The specification of the segmentation: the text is drawn in the         *)
(* initial state, one step builds the fields.                              *)
(***************************************************************************)
\* the parts a node's text is written from (<<>>: the part is left out)
TitleParts ==
    {<<>>,
     <<"M", "y", " ", "w", "i", "d", "g", "e", "t", " ", "b", "r", "o", "k", "e", " ", "a", "f", "t", "e", "r", " ", "a", " ", "w", "e", "e", "k">>,
     <<"H", "e", "l", "p">>,
     <<"S", "c", "a", "m", " ", "a", "l", "e", "r", "t", " ", "f", "o", "r", " ", "t", "h", "i", "s", " ", "s", "e", "l", "l", "e", "r">>,
     <<"o", "n", "e", " ", "t", "w", "o", " ", "t", "h", "r", "e", "e", " ", "f", "o", "u", "r", " ", "f", "i", "v", "e", " ", "s", "i", "x", " ", "o", "n", "e", " ", "t", "w", "o", " ", "t", "h", "r", "e", "e", " ", "f", "o", "u", "r", " ", "f", "i", "v", "e", " ", "s", "i", "x">>,
     <<"B", "i", "g", " ", "s", "a", "l", "e", " ", "bullet", " ", "t", "o", "d", "a", "y", " ", "o", "n", "l", "y", " ", "f", "o", "r", " ", "y", "o", "u">>}
AuthorParts == {<<>>, <<"u", "/", "a", "l", "i", "c", "e">>, <<"u", "/", "b", "o", "b", "-", "2">>}
TimeParts == {<<>>, <<"3", " ", "d", "a", "y", "s", " ", "a", "g", "o">>, <<"5", " ", "h", "r", ".", " ", "a", "g", "o">>}
FlairParts == {<<>>, <<"D", "i", "s", "c", "u", "s", "s", "i", "o", "n">>, <<"N", "e", "w", "s">>}
BodyParts == {<<>>, <<"I", "t", " ", "s", "t", "o", "p", "p", "e", "d", " ", "w", "o", "r", "k", "i", "n", "g", " ", "e", "n", "t", "i", "r", "e", "l", "y">>}

\* how the parts are set apart: by spaces (the text is flattened), by line
\* breaks, or title and author on one line and line breaks after
Layouts == {"flat", "lines", "byline"}
Separator(layout, k) ==
    IF layout = "flat" \/ (layout = "byline" /\ k = 1) THEN <<" ">>
    ELSE <<"\n">>

\* the parts that are there, joined by the separators of the layout
RECURSIVE Joined(_, _, _)
Joined(parts, layout, k) ==
    IF parts = <<>> THEN <<>>
    ELSE IF Len(parts) = 1 THEN parts[1]
    ELSE parts[1] \o Separator(layout, k) \o Joined(Tail(parts), layout, k + 1)

NodeTexts ==
    {[layout |-> l, title |-> t, author |-> a, time |-> p, flair |-> f,
      body |-> b,
      text |-> Joined(SelectSeq(<<t, a, p, f, b>>, LAMBDA x : x # <<>>), l, 1)] :
        l \in Layouts, t \in TitleParts, a \in AuthorParts, p \in TimeParts,
        f \in FlairParts, b \in BodyParts}

\* the identifier of the node
Str_post_id == <<"a", "b", "c">>

InitParse ==
    /\ InitScraper /\ TimeIdle /\ FilterIdle /\ BodyIdle /\ UrlIdle
    /\ StoreIdle /\ StreamIdle
    /\ post_text \in NodeTexts
    /\ thread_fields = NoFields

\* lines 219-326 and 330-340
ParseModernNode ==
    /\ ~thread_fields.done
    /\ thread_fields' = ModernFields(post_text.text, Str_post_id)
    /\ UNCHANGED <<post_text, streamVars, scraperVars, timeVars, filterVars,
                   bodyVars, urlVars, storeVars>>

NextParse == ParseModernNode

SpecParse == InitParse /\ [][NextParse]_vars

(***************************************************************************)
(* The progress stream (src/app.py lines 237-316).  generate() runs from   *)
(* one yield to the next: a step is what it executes between two yields,   *)
(* and every yield appends an event to the stream.  The save loop writes   *)
(* the threads table through insert_thread.                                *)
(***************************************************************************)
\* a 'message' event: json.dumps({'message': ..., 'type': ...})
Message(type, text) ==
    [kind |-> "message", type |-> type, text |-> text, saved_count |-> 0]
\* line 245: {'error': 'Invalid progress ID'}
InvalidId ==
    [kind |-> "error", type |-> "", text |-> "Invalid progress ID",
     saved_count |-> 0]
\* lines 269, 305 and 314: {'completed': True, 'saved_count': n}
CompletedEvent(n) ==
    [kind |-> "completed", type |-> "", text |-> "", saved_count |-> n]

\* the records scrape_subreddit hands to the stream
StreamRecords == [thread_id : ThreadIds \cup {Null}, fields : {"v1"}]
ScrapeResults == UNION { [1..n -> StreamRecords] : n \in 0..MaxThreads }

\* the sub-lists of a list, in the list's order
RECURSIVE SubLists(_)
SubLists(s) ==
    IF s = <<>> THEN {<<>>}
    ELSE LET rest == SubLists(Tail(s))
         IN  rest \cup {<<Head(s)>> \o t : t \in rest}

\* a request for /progress_stream/<progress_id>: the id is in progress_data
\* or not, and the entry has both dates or not (line 276)
StreamRequests ==
    [at : {"start"}, known : BOOLEAN, dated : BOOLEAN, threads : {<<>>},
     recorded : {FALSE}]

\* a yield
Emit(e) == events' = Append(events, e)

\* the stream leaves the scraper and the other functions alone
StreamOthers ==
    UNCHANGED <<scraperVars, timeVars, filterVars, bodyVars, urlVars, parseVars>>

\* line 270 with the return missing: generate() goes on with the empty list
AfterNoThreadsFallThrough == "found"

\* line 270: return
AfterNoThreads == "done"

\* lines 311-313: the handler of the try block logs and yields the error
Handle ==
    /\ Emit(Message("error", "Error"))
    /\ stream' = [stream EXCEPT !.at = "failed"]

\* lines 284-286: the saving message; the loop starts with saved_count = 0
BeginSaving ==
    /\ Emit(Message("info", "Saving threads to database"))
    /\ stream' = [stream EXCEPT !.at = "saving"]
    /\ batch' = stream.threads
    /\ save_pos' = 1
    /\ saved_count' = 0
    /\ skipped_count' = 0
    /\ fresh_count' = 0
    /\ UNCHANGED <<rows, next_id, last_insert>>

\* lines 243-257: an unknown id ends the stream with one error event; for a
\* known id the parameters are read and the initial message is sent
Begin ==
    /\ stream.at = "start"
    /\ IF stream.known
       THEN /\ Emit(Message("info", "Starting download"))
            /\ stream' = [stream EXCEPT !.at = "initial"]
       ELSE /\ Emit(InvalidId)
            /\ stream' = [stream EXCEPT !.at = "done"]
    /\ UNCHANGED storeVars
    /\ StreamOthers

\* lines 258-262
AnnounceFetch ==
    /\ stream.at = "initial"
    /\ Emit(Message("info", "Fetching threads"))
    /\ stream' = [stream EXCEPT !.at = "fetching"]
    /\ UNCHANGED storeVars
    /\ StreamOthers

\* lines 263-272: scrape_subreddit returns a list or raises
Scrape(raised, found) ==
    /\ stream.at = "fetching"
    /\ IF raised THEN Handle
       ELSE IF found = <<>>
       THEN /\ Emit(Message("error", "No threads found or error occurred"))
            /\ stream' = [stream EXCEPT !.at = "empty"]
       ELSE /\ Emit(Message("success", "Found"))
            /\ stream' = [stream EXCEPT !.at = "found", !.threads = found]
    /\ UNCHANGED storeVars
    /\ StreamOthers

\* lines 269-270: the completion event of a stream that found no thread
CompleteEmpty ==
    /\ stream.at = "empty"
    /\ Emit(CompletedEvent(0))
    /\ stream' = [stream EXCEPT !.at = AfterNoThreads]
    /\ UNCHANGED storeVars
    /\ StreamOthers

\* lines 273-286: with both dates the filter is announced, else the saving
AfterFound ==
    /\ stream.at = "found"
    /\ IF stream.dated
       THEN /\ Emit(Message("info", "Filtering by date range"))
            /\ stream' = [stream EXCEPT !.at = "filtering"]
            /\ UNCHANGED storeVars
       ELSE BeginSaving
    /\ StreamOthers

\* lines 278-281: filter_by_date_range returns a sub-list of the threads
\* (kept), unless the step raises
Filter(raised, kept) ==
    /\ stream.at = "filtering"
    /\ kept \in SubLists(stream.threads)
    /\ IF raised THEN Handle
       ELSE /\ Emit(Message("info", "Filtered"))
            /\ stream' = [stream EXCEPT !.at = "filtered", !.threads = kept]
    /\ UNCHANGED storeVars
    /\ StreamOthers

\* lines 282-286
AnnounceSaving ==
    /\ stream.at = "filtered"
    /\ BeginSaving
    /\ StreamOthers

\* lines 288-297: one iteration of the save loop; raised: thread['title']
\* raises after the insert (lines 291-292 or 296)
SaveNext(db_ok, raised) ==
    /\ stream.at = "saving"
    /\ save_pos \in 1..Len(batch)
    /\ LET rec == batch[save_pos]
           existed == rec.thread_id \in StoredIds(rows)
           ins == insert_thread(rows, next_id, rec, db_ok)
       IN  /\ rows' = ins.rows
           /\ next_id' = ins.next_id
           /\ saved_count' = IF ins.result THEN saved_count + 1 ELSE saved_count
           /\ fresh_count' = IF db_ok /\ ~existed THEN fresh_count + 1
                             ELSE fresh_count
           /\ last_insert' = [called |-> TRUE, thread_id |-> rec.thread_id,
                              existed |-> existed, inserted |-> db_ok,
                              result |-> ins.result, fields |-> rec.fields,
                              summarized |-> FALSE]
           /\ IF raised
              THEN /\ Handle
                   /\ UNCHANGED <<save_pos, skipped_count>>
              ELSE /\ Emit(IF ins.result THEN Message("progress", "Saved")
                           ELSE Message("warning", "Skipped"))
                   /\ skipped_count' = IF ins.result THEN skipped_count
                                       ELSE skipped_count + 1
                   /\ save_pos' = save_pos + 1
                   /\ UNCHANGED stream
    /\ UNCHANGED batch
    /\ StreamOthers

\* lines 299-301: the loop is over; the final summary
Summarize ==
    /\ stream.at = "saving"
    /\ save_pos > Len(batch)
    /\ Emit(Message("success", "Successfully saved"))
    /\ stream' = [stream EXCEPT !.at = "saved"]
    /\ UNCHANGED storeVars
    /\ StreamOthers

\* lines 302-305: the completion event of a stream that saved its threads
Complete ==
    /\ stream.at = "saved"
    /\ Emit(CompletedEvent(saved_count))
    /\ stream' = [stream EXCEPT !.at = "completed"]
    /\ UNCHANGED storeVars
    /\ StreamOthers

\* lines 307-309: progress_data is updated and generate() ends
Record ==
    /\ stream.at = "completed"
    /\ stream' = [stream EXCEPT !.at = "done", !.recorded = TRUE]
    /\ UNCHANGED <<events, storeVars>>
    /\ StreamOthers

\* line 314: the completion event of a stream that raised
CompleteFailed ==
    /\ stream.at = "failed"
    /\ Emit(CompletedEvent(0))
    /\ stream' = [stream EXCEPT !.at = "done"]
    /\ UNCHANGED storeVars
    /\ StreamOthers

InitStream ==
    /\ InitScraper /\ TimeIdle /\ FilterIdle /\ BodyIdle /\ UrlIdle
    /\ StoreIdle /\ ParseIdle
    /\ stream \in StreamRequests
    /\ events = <<>>

NextStream ==
    \/ Begin
    \/ AnnounceFetch
    \/ \E raised \in BOOLEAN, found \in ScrapeResults : Scrape(raised, found)
    \/ CompleteEmpty
    \/ AfterFound
    \/ \E raised \in BOOLEAN, kept \in ScrapeResults : Filter(raised, kept)
    \/ AnnounceSaving
    \/ \E db_ok \in BOOLEAN, raised \in BOOLEAN : SaveNext(db_ok, raised)
    \/ Summarize
    \/ Complete
    \/ Record
    \/ CompleteFailed

SpecStream == InitStream /\ [][NextStream]_vars

(***************************************************************************)
(* Claims about the rate limiter (specification Spec).                     *)
(***************************************************************************)

\* C1: any two consecutive outbound fetches of the instance, whatever the
\* outcome of the earlier one, start at least the delay sampled for the
\* later one apart, that delay being drawn from [min_request_interval,
\* max_request_interval]; only the very first fetch has no imposed delay.
C1_PacingBetweenConsecutiveFetches ==
    net.started = "later" =>
        /\ net.curDelay \in min_request_interval..max_request_interval
        /\ net.gap >= net.curDelay

\* C2: after every outbound request completes, whether it succeeded,
\* returned an HTTP error status or failed with a network error or a
\* timeout, last_request_time is the time of completion.
C2_StampedAfterEveryRequest ==
    net.outcome # "none" => last_request_time = net.doneAt

(***************************************************************************)
(* Claims about the extraction loop (specification SpecExtract).           *)
(***************************************************************************)

\* the number of records of ths that come from the node at position p
RECURSIVE RecordsFrom(_, _)
RecordsFrom(ths, p) ==
    IF ths = <<>> THEN 0
    ELSE (IF Head(ths).pos = p THEN 1 ELSE 0) + RecordsFrom(Tail(ths), p)

HasSchema(d, schema) == \E i \in 1..Len(d) : d[i].schema = schema
CountSchema(d, schema) == Cardinality({i \in 1..Len(d) : d[i].schema = schema})
AllFrom(ths, schema) == \A i \in 1..Len(ths) : ths[i].schema = schema

\* C3: a detected post node (legacy or modern) without a recoverable
\* identifier contributes zero records, and every other detected node
\* processed before the maximum is reached contributes exactly one.
C3_IdentifierRequirement ==
    \A c \in SeqCallers :
        pc[c] = "loop" =>
            \A k \in 1..Len(posts[c]) :
                k < idx[c] =>
                    RecordsFrom(threads[c], posts[c][k].pos) =
                        (IF posts[c][k].node.idsrc = "none" THEN 0 ELSE 1)

\* C4 as stated: whenever the listing holds both legacy and modern nodes,
\* the records are derived from the legacy nodes, however many modern
\* nodes were found.
C4_LegacyAlwaysPreferred ==
    \A c \in SeqCallers :
        (pc[c] = "loop" /\ HasSchema(doc[c], "legacy") /\ HasSchema(doc[c], "modern"))
            => AllFrom(threads[c], "legacy")

\* C4 as amended: when the listing holds both legacy and modern nodes, the
\* records are derived from the legacy nodes if fewer than max_threads
\* modern nodes were found, and from the modern nodes otherwise.
C4_LegacyPreferredBelowMax ==
    \A c \in SeqCallers :
        (pc[c] = "loop" /\ HasSchema(doc[c], "legacy") /\ HasSchema(doc[c], "modern"))
            => IF CountSchema(doc[c], "modern") < max_threads[c]
               THEN AllFrom(threads[c], "legacy")
               ELSE AllFrom(threads[c], "modern")

\* a mixed listing with fewer modern nodes than asked for, and a record
\* taken from one of its legacy nodes
C4_Witness ==
    \E c \in SeqCallers :
        /\ pc[c] = "loop"
        /\ HasSchema(doc[c], "legacy") /\ HasSchema(doc[c], "modern")
        /\ CountSchema(doc[c], "modern") < max_threads[c]
        /\ Len(threads[c]) >= 1

\* C5: scrape_subreddit returns at most max_threads records, in the
\* relative order of their post nodes in the listing document.
C5_AtMostMaxInDocumentOrder ==
    \A c \in SeqCallers :
        /\ Len(threads[c]) <= max_threads[c]
        /\ \A i, j \in 1..Len(threads[c]) :
               i < j => threads[c][i].pos < threads[c][j].pos

\* a call has returned max_threads records, two or more
C5_Witness ==
    \E c \in SeqCallers :
        /\ returned[c] = "ok"
        /\ Len(threads[c]) = max_threads[c]
        /\ Len(threads[c]) >= 2

(***************************************************************************)
(* Claims about parse_relative_time (specification SpecTime).              *)
(***************************************************************************)

\* the string is an ISO-8601 timestamp that datetime.fromisoformat reads back
ValidTimestamp(str) ==
    /\ str.kind = "iso"
    /\ str.date >= 1
    /\ str.hh \in 0..23 /\ str.mm \in 0..59 /\ str.ss \in 0..59
    /\ str.us \in 0..999999
    /\ Isoformat(FromIsoformat(str)) = str

\* C6: for every input (empty, malformed, non-matching, or not a string)
\* parse_relative_time returns a valid ISO-8601 timestamp and never raises,
\* so every created_date is parseable.
C6_ParseRelativeTimeTotal ==
    created_date # NoText => ValidTimestamp(created_date)

\* the call was made with a value that is not a string
C6_Witness ==
    /\ time_in.via = "call" /\ time_in.type = "none"
    /\ created_date # NoText

\* C9: for a legacy node whose time element carries an absolute time, the
\* record's created_date is the ISO-8601 form of that time; created_date is
\* the current time only when no time phrase was found.
C9_AbsoluteTimeKept ==
    (time_in.via = "legacy" /\ created_date # NoText) =>
        /\ time_in.elem = "titled" => created_date = Isoformat(time_in.abs)
        /\ created_date = Isoformat(dt_now) => time_in.elem # "titled"

\* what the claim says one unit lasts, in seconds
ClaimedSeconds(unit) ==
    CASE unit = Str_min   -> 60
      [] unit = Str_hr    -> 60 * 60
      [] unit = Str_hour  -> 60 * 60
      [] unit = Str_day   -> 24 * 60 * 60
      [] unit = Str_week  -> 7 * 24 * 60 * 60
      [] unit = Str_month -> 30 * 24 * 60 * 60
      [] unit = Str_year  -> 365 * 24 * 60 * 60

\* the seconds from instant a to instant b
SecondsFrom(a, b) == (b.day - a.day) * (24 * 60 * 60) + (b.sec - a.sec)

\* C10: a phrase "<n> <unit> ago" gives the current instant minus n
\* minutes, hours, days, weeks, 30*n days or 365*n days, and "just now"
\* gives the current instant.
C10_RelativePhraseShift ==
    created_date # NoText =>
        /\ time_in.form = "relative" =>
              /\ Parseable(created_date)
              /\ SecondsFrom(FromIsoformat(created_date), dt_now)
                     = time_in.n * ClaimedSeconds(time_in.unit)
              /\ FromIsoformat(created_date).us = dt_now.us
        /\ time_in.form = "immediate" => created_date = Isoformat(dt_now)

\* "<n> month(s) ago" with n > 0 has been normalised
C10_Witness ==
    /\ time_in.form = "relative" /\ time_in.unit = Str_month /\ time_in.n > 0
    /\ created_date # NoText

(***************************************************************************)
(* Claims about filter_by_date_range (specification SpecFilter).           *)
(***************************************************************************)

ValidRange == start_date.kind = "date" /\ end_date.kind = "date"
Kept(i) == \E k \in 1..Len(filtered.value) : filtered.value[k] = records[i]

\* C7: with a valid date range every record whose created_date cannot be
\* parsed is in the output; with a start_date or end_date that cannot be
\* parsed the output is the input list unchanged.
C7_FilterFailsOpen ==
    filtered.done =>
        /\ ValidRange =>
              \A i \in 1..Len(records) :
                  ~Parseable(records[i].created_date) => Kept(i)
        /\ ~ValidRange => filtered.value = records

\* a valid range, a record kept although its date does not parse, and
\* another record filtered out
C7_Witness ==
    /\ filtered.done /\ ValidRange
    /\ \E i \in 1..Len(records) : ~Parseable(records[i].created_date) /\ Kept(i)
    /\ \E j \in 1..Len(records) : ~Kept(j)

ContentCompletes(c) ==
    pc[c] = "wait" /\ thread_data[c] # <<>> /\ pc'[c] # "wait"

Failures == {"http403", "http5xx", "neterr", "timeout"}

\* C11: when the thread-content fetch of a record fails (error status,
\* network error or timeout), the record is still emitted, with the content
\* it had, and the loop goes on with the next post node; the call is not
\* aborted.
C11_ContentFailureKeepsRecord ==
    [][\A c \in SeqCallers :
         (ContentCompletes(c) /\ net'.outcome \in Failures) =>
             /\ threads'[c] = Append(threads[c], thread_data[c])
             /\ pc'[c] = "loop"
             /\ idx'[c] = idx[c] + 1
             /\ returned'[c] = "running"]_vars

\* the content fetch of a record failed, the record was emitted and the
\* next post node is being processed
C11_Witness ==
    \E c \in SeqCallers :
        /\ net.outcome \in Failures
        /\ Len(threads[c]) >= 1
        /\ thread_data[c] # <<>>
        /\ thread_data[c].pos > threads[c][Len(threads[c])].pos

FrameFields == {"thread_id", "subreddit", "title", "author", "posted_time",
                "created_date", "flair", "url"}
SameFrame(r, td) == \A f \in FrameFields : r[f] = td[f]

\* C12: enrichment changes a record at most once and only its content: with
\* an empty fetched content (failure or no self-text) the record keeps its
\* inline snippet, in every case the other fields are unchanged, and a
\* record once emitted does not change any more.
C12_EnrichmentOnlyBody ==
    /\ [](\A c \in SeqCallers :
            thread_data[c] # <<>> =>
              \A o \in Outcomes, has_body \in BOOLEAN :
                (o # "ok" => ~has_body) =>
                  LET full_content == FullContent(o, has_body)
                      r == Enriched(thread_data[c], full_content)
                  IN  /\ SameFrame(r, thread_data[c])
                      /\ full_content = "" => r = thread_data[c])
    /\ [][\A c \in SeqCallers :
            /\ ContentCompletes(c) =>
                 /\ Len(threads'[c]) = Len(threads[c]) + 1
                 /\ LET r == threads'[c][Len(threads'[c])]
                    IN  /\ SameFrame(r, thread_data[c])
                        /\ r.content # thread_data[c].content =>
                             (net'.outcome = "ok" /\ r.content = "fetched")
            /\ Len(threads'[c]) >= Len(threads[c]) =>
                 SubSeq(threads'[c], 1, Len(threads[c])) = threads[c]]_vars

\* a call returned two records, one enriched and one with its inline snippet
C12_Witness ==
    \E c \in SeqCallers :
        /\ returned[c] = "ok"
        /\ \E i, j \in 1..Len(threads[c]) :
             threads[c][i].content = "fetched" /\ threads[c][j].content = "inline"

\* what a call of scrape_subreddit can have come to
Returns == {"none", "running", "no_name", "ok",
            "http403", "http_error", "request_error"}
EmptyReturns == {"http403", "http_error", "request_error"}

\* C13: scrape_subreddit never raises: a transport error, a 403 or another
\* HTTP error on the listing fetch ends the call with an empty list, and a
\* failure while parsing one post node drops that node only, every other
\* node processed still giving its record.
C13_FailuresAbsorbed ==
    \A c \in SeqCallers :
        /\ returned[c] \in Returns
        /\ returned[c] \in EmptyReturns => (pc[c] = "idle" /\ threads[c] = <<>>)
        /\ pc[c] = "loop" =>
             \A k \in 1..Len(posts[c]) :
                 k < idx[c] =>
                     /\ NodeOutcome(posts[c][k].node) = "raise" =>
                            RecordsFrom(threads[c], posts[c][k].pos) = 0
                     /\ NodeOutcome(posts[c][k].node) = "record" =>
                            RecordsFrom(threads[c], posts[c][k].pos) = 1

\* a node whose parsing raised was dropped and the node after it gave a record
C13_Witness ==
    \E c \in SeqCallers :
        /\ pc[c] = "loop" /\ idx[c] > 2
        /\ NodeOutcome(posts[c][1].node) = "raise"
        /\ Len(threads[c]) = 1
        /\ threads[c][1].pos = posts[c][2].pos

\* C14: a call whose URL yields no listing name returns an empty list at
\* once: no request is issued, the rate limiter neither samples a delay nor
\* sleeps, and last_request_time is unchanged.
C14_NoNameNoRequest ==
    [][\A c \in SeqCallers :
         (pc[c] = "idle" /\ returned'[c] = "no_name") =>
             /\ pc'[c] = "idle"
             /\ threads'[c] = <<>>
             /\ net' = net
             /\ last_request_time' = last_request_time
             /\ random_delay' = random_delay
             /\ wake' = wake]_vars

\* a call without listing name has returned on an instance that has issued
\* requests before, so that the rate limiter would have imposed a delay
C14_Witness ==
    \E c \in SeqCallers :
        /\ returned[c] = "no_name"
        /\ pc[c] = "idle"
        /\ last_request_time > 0
        /\ net.started # "none"

(***************************************************************************)
(* Claims about the content of a record (specification SpecBody).          *)
(***************************************************************************)

\* C15: the content of every record is bounded: at most 3000 characters
\* when fetched from the thread page, and otherwise at most 1000 characters
\* for a legacy rich-text body and at most about 500 for a snippet or a
\* placeholder (the laxer 1000 is tested here), whatever the lengths of the
\* node's text and title.
C15_BoundedBody ==
    content.kind # "none" =>
        /\ content.kind = "fetched" => content.len <= 3000
        /\ content.kind # "fetched" => content.len <= 1000

(***************************************************************************)
(* Further claims about the extraction loop (specification SpecExtract).   *)
(***************************************************************************)

\* C16: every record collected by scrape_subreddit has a non-empty string
\* as title; a node without recoverable title gives a record with a
\* synthesized title or no record at all.
C16_NonEmptyTitle ==
    \A c \in SeqCallers :
        \A i \in 1..Len(threads[c]) : threads[c][i].title = "text"

(***************************************************************************)
(* Claims about the URL normalization (specification SpecUrl).             *)
(***************************************************************************)

\* the URL has the path segment srt
HasSegment(url, srt) ==
    \/ Contains(url, Str_slash \o srt \o Str_slash)
    \/ EndsWith(url, Str_slash \o srt)

\* C17: the URL requested ends with a slash and has a sort segment: it ends
\* with /new/ whenever the caller's URL has no segment new, hot, top or
\* rising, whatever the name of the listing, and a sort segment of the
\* caller's URL is still there.
C17_SortSegment ==
    (url_out.done /\ url_out.found) =>
        /\ EndsWith(url_out.value, Str_slash)
        /\ \E srt \in SortNames : HasSegment(url_out.value, srt)
        /\ (\A srt \in SortNames : ~HasSegment(url_in, srt)) =>
               EndsWith(url_out.value, Str_new_segment)
        /\ \A srt \in SortNames :
               HasSegment(url_in, srt) => HasSegment(url_out.value, srt)

(***************************************************************************)
(* Claims about the order of the fetches (specifications Spec and          *)
(* SpecConcurrent).                                                        *)
(***************************************************************************)

\* the caller is between the rate limiter and the response of a request
Fetching(c) == pc[c] \in {"limit", "sleep", "send", "wait"}

\* C18: within one call the fetches are strictly sequential: while the
\* listing fetch is pending no node has been extracted, while the content
\* fetch of a record is pending the loop stays at the node of that record
\* and every record collected comes from an earlier node, and at most one
\* request is in flight, namely the one the caller waits for.
C18_StrictlySequential ==
    \A c \in SeqCallers :
        /\ net.inflight <= 1
        /\ net.inflight = 1 <=> pc[c] = "wait"
        /\ (Fetching(c) /\ thread_data[c] = <<>>) =>
               (threads[c] = <<>> /\ posts[c] = <<>> /\ idx[c] = 0)
        /\ thread_data[c] # <<>> =>
               /\ Fetching(c)
               /\ idx[c] \in 1..Len(posts[c])
               /\ posts[c][idx[c]].pos = thread_data[c].pos
               /\ \A i \in 1..Len(threads[c]) :
                      threads[c][i].pos < thread_data[c].pos

\* the content request of a second record is in flight
C18_Witness ==
    \E c \in SeqCallers :
        /\ pc[c] = "wait"
        /\ net.inflight = 1
        /\ thread_data[c] # <<>>
        /\ Len(threads[c]) >= 1

\* C19: with two progress streams calling scrape_subreddit on the shared
\* scraper instance at the same time, no two outbound requests are in
\* flight together and any two consecutive requests start at least
\* min_request_interval apart.
C19_SharedInstancePacing ==
    /\ net.inflight <= 1
    /\ net.started = "later" => net.gap >= min_request_interval

(***************************************************************************)
(* Claims about the threads table (specification SpecStore).               *)
(***************************************************************************)

\* C20: insert_thread returns true exactly when it stored a row for a
\* thread_id that was not in the table, and false when a row with that
\* thread_id already existed; so saved_count is the number of threads newly
\* stored by the stream.
C20_InsertReportsNewRow ==
    /\ last_insert.called =>
           (last_insert.result <=> (last_insert.inserted /\ ~last_insert.existed))
    /\ saved_count = fresh_count

\* the row a successful insert_thread of rec writes when the table hands
\* out id
FreshRow(id, rec) ==
    [id |-> id, thread_id |-> rec.thread_id, fields |-> rec.fields,
     summary |-> Null, ai_tags |-> Null, summarized_at |-> Null]

\* a step in which insert_thread stores a record whose thread_id is in the
\* table
ReinsertStep ==
    /\ save_pos \in 1..Len(batch)
    /\ save_pos' = save_pos + 1
    /\ next_id' = next_id + 1
    /\ Conflicting(rows, batch[save_pos]) # {}

\* C27: after any sequence of insert_thread and update_thread_summary calls
\* the table holds at most one row per non-null thread_id; and an
\* insert_thread of a record whose thread_id is in the table replaces the
\* whole row: the row of that thread_id carries the fields just inserted and
\* its summary, ai_tags and summarized_at are NULL again.
C27_OneRowPerThreadId ==
    /\ [](\A r1, r2 \in rows :
             (r1.thread_id # Null /\ r1.thread_id = r2.thread_id) => r1 = r2)
    /\ [][ReinsertStep =>
             LET rec == batch[save_pos]
             IN  /\ FreshRow(next_id, rec) \in rows'
                 /\ \A r \in rows' :
                        r.thread_id = rec.thread_id => r = FreshRow(next_id, rec)
                 /\ \A r \in rows' : r.id \notin {q.id : q \in Conflicting(rows, rec)}
                 /\ rows' \ {FreshRow(next_id, rec)}
                        = rows \ Conflicting(rows, rec)]_vars

\* a record was inserted over a row that had a summary, tags and the time
\* of the summary; the row of its thread_id has the new fields and none of
\* the three
C27_Witness ==
    /\ last_insert.called /\ last_insert.inserted /\ last_insert.existed
    /\ last_insert.summarized
    /\ \E r \in rows :
           /\ r.thread_id = last_insert.thread_id
           /\ r.fields = last_insert.fields
           /\ r.summary = Null /\ r.ai_tags = Null /\ r.summarized_at = Null
           /\ r.id > 1

(***************************************************************************)
(* Claims about the log and the number of requests (specifications Spec    *)
(* and SpecExtract).                                                       *)
(***************************************************************************)

\* what tells two log statements apart: the level and the message
Statement(e) == <<e.level, e.message>>

\* C22: when fetch_thread_content receives a 403 response it returns the
\* empty string without raising (the record is emitted with the content it
\* had), and the event it logs for the access-denied condition is distinct
\* from the event it logs for a generic network error.
C22_AccessDeniedLoggedDistinctly ==
    [][\A c \in SeqCallers :
         (ContentCompletes(c) /\ net'.outcome = "http403") =>
             /\ FullContent("http403", FALSE) = ""
             /\ threads'[c] = Append(threads[c], thread_data[c])
             /\ logged'[c].level = "error"
             /\ Statement(logged'[c]) # Statement(ContentLogEvent("neterr"))]_vars

\* C25: a call issues at most one listing request, and with
\* fetch_full_content enabled exactly one thread-content request per record
\* collected (none for a node that is skipped or discarded), so at most
\* 1 + max_threads requests in all.
C25_RequestBudget ==
    \A c \in SeqCallers :
        /\ requests[c].listing <= 1
        /\ requests[c].content =
               IF fetch_full_content[c] THEN Len(threads[c]) ELSE 0
        /\ requests[c].listing + requests[c].content <= 1 + max_threads[c]

\* the loop is over two nodes: the first gave no record and no request,
\* the second a record and its thread-content request
C25_Witness ==
    \E c \in SeqCallers :
        /\ pc[c] = "loop" /\ fetch_full_content[c]
        /\ Len(posts[c]) = 2 /\ idx[c] > Len(posts[c])
        /\ NodeOutcome(posts[c][1].node) # "record"
        /\ Len(threads[c]) = 1
        /\ requests[c] = [listing |-> 1, content |-> 1]

(***************************************************************************)
(* Claims about the fields of a modern node (specification SpecParse).     *)
(***************************************************************************)

\* C21: a modern node whose flattened text is the text of Scenario C gives
\* a record whose title contains 'My widget broke after a week', whose
\* author is 'u/alice', whose posted_time is '3 days ago' and whose flair
\* is 'Discussion'.
C21_ScenarioFields ==
    (thread_fields.done /\ post_text.text = ScenarioText) =>
        /\ Contains(thread_fields.title,
                    <<"M", "y", " ", "w", "i", "d", "g", "e", "t", " ", "b", "r", "o", "k", "e", " ", "a", "f", "t", "e", "r", " ", "a", " ", "w", "e", "e", "k">>)
        /\ thread_fields.author = <<"u", "/", "a", "l", "i", "c", "e">>
        /\ thread_fields.posted_time = <<"3", " ", "d", "a", "y", "s", " ", "a", "g", "o">>
        /\ thread_fields.flair = <<"D", "i", "s", "c", "u", "s", "s", "i", "o", "n">>

(***************************************************************************)
(* Claims about the inline body (specification SpecBody).                  *)
(***************************************************************************)

\* C23: the inline body of a legacy node follows the three-step fallback:
\* the text of the rich-text body element, if there is one with text,
\* cut to UsertextLimit characters, however short it is; otherwise the
\* text of the entry container, if it has text, cut to EntryLimit
\* characters; a placeholder only when neither gives text.
C23_LegacyBodyFallback ==
    (content # NoContent /\ body_in.schema = "legacy"
                         /\ content.kind # "fetched") =>
        IF body_in.usertext # Absent /\ body_in.usertext > 0
        THEN content = [kind |-> "rich",
                        len |-> Min(body_in.usertext, UsertextLimit)]
        ELSE IF body_in.entry # Absent /\ body_in.entry > 0
             THEN content = [kind |-> "snippet",
                             len |-> Min(body_in.entry, EntryLimit)]
             ELSE content.kind = "placeholder"

(***************************************************************************)
(* Claims about phrases with other words (specification SpecTime).         *)
(***************************************************************************)

\* the word occurs in the text, set apart from the letters around it
HasWord(str, word) ==
    \E k \in 1..Len(str) :
        /\ StartsAt(str, k, word)
        /\ k > 1 => str[k - 1] \notin WordChars
        /\ k + Len(word) <= Len(str) => str[k + Len(word)] \notin WordChars

\* C24: parse_relative_time returns the unshifted current instant only
\* when the phrase denotes immediacy (it has the word "now"), has no
\* number-unit match, or the call raises internally; a phrase that has a
\* number-unit match among other words is normalized to the current
\* instant minus the duration of that match.
C24_UnshiftedOnlyWhenImmediate ==
    (time_in.via = "call" /\ created_date # NoText) =>
        LET time_str == Strip(Lower(time_in.chars))
            match == Search(time_str)
            raised == TryParseRelativeTime(time_in, dt_now) = Raised
            shifted == Isoformat(Minus(dt_now, DeltaOf(match.value, match.unit)))
        IN  /\ created_date = Isoformat(dt_now) =>
                   \/ HasWord(time_str, Str_now)
                   \/ ~match.found
                   \/ raised
                   \/ shifted = Isoformat(dt_now)
            /\ (match.found /\ ~raised /\ ~HasWord(time_str, Str_now)) =>
                   created_date = shifted

(***************************************************************************)
(* Claims about what the filter lets through (specification SpecFilter).   *)
(***************************************************************************)

\* C26: with a valid date range and any input list, records with a
\* created_date that does not parse or with a missing title included, the
\* list returned holds no record whose created_date parses to an instant
\* outside [start, end] (end: the last second of end_date), and it is a
\* sub-list of the input in the input's order.
C26_NothingOutOfRangeKept ==
    (filtered.done /\ ValidRange /\ start_date.date <= end_date.date) =>
        LET start == FromIsoformat(start_date)
            end == FromIsoformat(EndOfDay(end_date))
            out == filtered.value
        IN  /\ \A k \in 1..Len(out) :
                   (Parseable(out[k].created_date) /\ ~out[k].created_date.tz)
                       => InRange(out[k], start, end)
            /\ \A k \in 1..Len(out) :
                   out[k].pos \in 1..Len(records) /\ out[k] = records[out[k].pos]
            /\ \A k \in 1..(Len(out) - 1) : out[k].pos < out[k + 1].pos

(***************************************************************************)
(* Claims about the progress stream (specification SpecStream).            *)
(***************************************************************************)

\* the positions of the completion events in a list of events
Completions(evs) == {k \in 1..Len(evs) : evs[k].kind = "completed"}

\* C28: a progress stream for an id in progress_data emits, when it is run
\* to its end, exactly one completion event, which is its last event, on
\* every path (no thread found, normal completion, an exception while
\* scraping, filtering or saving), and never a completion event that
\* another event follows; a stream for an unknown id emits one error event
\* and no completion event.
C28_OneCompletionLast ==
    /\ Cardinality(Completions(events)) <= 1
    /\ \A k \in Completions(events) : k = Len(events)
    /\ stream.at = "done" =>
           IF stream.known
           THEN events # <<>> /\ Completions(events) = {Len(events)}
           ELSE events = <<InvalidId>>

\* a stream for a known id saved a thread, raised on the next one and ended
\* with the error message and the completion event
C28_Witness ==
    /\ stream.at = "done" /\ stream.known
    /\ saved_count >= 1
    /\ Len(events) >= 3
    /\ events[Len(events)] = CompletedEvent(0)
    /\ events[Len(events) - 1] = Message("error", "Error")
    /\ \E k \in 1..Len(events) : events[k] = Message("progress", "Saved")

====
